---- MODULE Spec2Model ----
(***************************************************************************)
(* A model of notnow's core: the cyclic SelectionState (selection.rs), the *)
(* task collection (tasks.rs, ser/tasks.rs) and the load/save of the       *)
(* program state (state.rs).                                               *)
(***************************************************************************)
EXTENDS Integers, Sequences, FiniteSets, TLC

\* ------------------------------------------------------------------ bounds

\* Keys of the selected sequence are 1..MaxKey.
MaxKey == 2
\* Longest sequence handed to normalize.
MaxLen == 3
\* Most advance() calls between two reset_cycled() calls (or since new()).
MaxAdv == 4
\* Most net advances, pending and since the last reset_cycled(), while the
\* list changes between the calls.
MaxPending == 2
\* Most tasks in a task document and in the collection.
MaxTasks == 2
\* Most tags listed for one task (in a document, or given to add).
MaxTaskTags == 2
\* Most task ids the allocator hands out in one run.
MaxTaskIds == 4
\* Most tag ids the allocator hands out in one run.
MaxTagIds == 4
\* Most persisted queries in a program-state document.
MaxQueries == 1
\* Most persisted queries where their order is looked at.
MaxNamedQueries == 2
\* Most enumerations of the collection that are live at once.
MaxBorrows == 2

Keys == 1..MaxKey

\* ----------------------------------------------------------------- helpers

Abs(x) == IF x < 0 THEN -x ELSE x

Min(a, b) == IF a < b THEN a ELSE b

\* All sequences over S of length lo..hi.
SeqsOf(S, lo, hi) == UNION {[1..n -> S] : n \in lo..hi}

\* s with element e inserted so that it ends up at 0-based position p.
InsertAt(s, p, e) == SubSeq(s, 1, p) \o <<e>> \o SubSeq(s, p + 1, Len(s))

\* s without the element at 0-based position p.
RemoveAt(s, p) == SubSeq(s, 1, p) \o SubSeq(s, p + 2, Len(s))

\* ------------------------------------------------------- selection.rs state

VARIABLES
  pc,         \* "run", or "panic" once an unwrap or a division by zero aborted
  seq,        \* the sequence the caller hands to normalize (keys, in order)
  selection,  \* SelectionState.selection: Start(key) or Normalized(idx)
  reversed,   \* SelectionState.reversed
  advanced,   \* SelectionState.advanced
  total,      \* SelectionState.total
  \* history of the run, read by the properties only
  ret,        \* what the last normalize returned (-1: none yet)
  retKey,     \* the key at that index when it was returned (0: none yet)
  selPos,     \* where the element that normalize denoted is now (-1: removed,
              \* or none yet)
  edited,     \* the sequence changed since the last normalize
  adv,        \* advance() was called since the last normalize
  net,        \* forward less reverse calls of advance() since the last
              \* normalize
  last,       \* what ret, retKey, selPos, edited and adv were when the last
              \* normalize was called
  \* history kept while the sequence is the one new() was called for
  fixed,      \* the sequence has not changed since new()
  key0,       \* the key given to new(), 0 after a reset_cycled()
  s0,         \* index the selection denoted when total was last set to 0, by
              \* new() or reset_cycled() (-1: unknown)
  fwd,        \* forward advances since then
  rev,        \* reverse advances since then
  stepwise,   \* every advance since then was made with advanced = 0
  twin,       \* a second SelectionState, created alike, that gets the same
              \* calls and a normalize after every advance
  seen        \* index -> times the selection denoted it since then (2: twice
              \* or more)

\* ------------------------------------------- tasks.rs and state.rs state

VARIABLES
  nextTaskId, \* the task id the allocator hands out next
  issued,     \* history: the task ids handed out so far
  nextTagId,  \* the tag id the allocator hands out next
  state,      \* the State the program holds (NoState: none)
  progFile,   \* the content of the program-state file (Absent: no such file)
  taskFile,   \* the content of the task-state file (Absent: no such file)
  borrows,    \* the shared borrows of the collection's RefCell that are live
  row,        \* the row the task list of the UI has selected
  inOut,      \* what the in/out area of the UI was last set to
  offset,     \* the row the task list of the UI showed first when last drawn
  ev          \* the last call on the State or the collection: its arguments,
              \* what it returned and what the properties need of the state
              \* before it

selVars == <<pc, seq, selection, reversed, advanced, total>>
mutVars == <<ret, retKey, selPos, edited, adv, net, last>>
epochVars == <<fixed, key0, s0, fwd, rev, stepwise, twin, seen>>
selAll == <<seq, selection, reversed, advanced, total, mutVars, epochVars>>
taskVars ==
  <<nextTaskId, issued, nextTagId, state, progFile, taskFile, borrows, row,
    inOut, offset, ev>>
vars == <<pc, selAll, taskVars>>

\* Rust's % on isize: the remainder of the division truncated towards zero
\* (the sign of x); y # 0.
Rem(x, y) == IF x >= 0 THEN x % Abs(y) ELSE -((-x) % Abs(y))

\* The remainder without the correction for a negative x.
modulo_truncated(x, y) == Rem(x, y)

\* fn modulo: ((x % y) + y) % y.
modulo(x, y) == Rem(Rem(x, y) + y, y)

Start(k) == [kind |-> "Start", key |-> k, idx |-> 0]

Normalized(i) == [kind |-> "Normalized", key |-> 0, idx |-> i]

\* position finding the last element equal to k.
Position_last(s, k) ==
  IF \E i \in 1..Len(s) : s[i] = k
  THEN (CHOOSE i \in 1..Len(s) : s[i] = k /\ \A j \in (i + 1)..Len(s) : s[j] # k) - 1
  ELSE -1

\* Iterator::position: the 0-based index of the first element equal to k,
\* -1 for None.
Position(s, k) ==
  IF \E i \in 1..Len(s) : s[i] = k
  THEN (CHOOSE i \in 1..Len(s) : s[i] = k /\ \A j \in 1..(i - 1) : s[j] # k) - 1
  ELSE -1

\* Selection::index, -1 where position(..).unwrap() panics.
SelIndex(sel, s) ==
  IF sel.kind = "Start" THEN Position(s, sel.key) ELSE sel.idx

\* has_advanced seeing forward advances only.
has_advanced_forward == advanced > 0

\* has_advanced.
has_advanced == advanced # 0

\* has_cycled without the abs().
has_cycled_signed(count) == total > count

\* has_cycled with > replaced by >=.
has_cycled_no_overlap(count) == Abs(total) >= count

\* has_cycled: self.total.abs() as usize > count.
has_cycled(count) == Abs(total) > count

\* normalize aborting on the empty sequence only.
NormalizePanics_empty_only(sel, s) == Len(s) = 0

\* normalize aborts: the Start key is not in the sequence (unwrap of None), or
\* the sequence is empty (remainder with a divisor of zero).
NormalizePanics(sel, s) ==
  (sel.kind = "Start" /\ Position(s, sel.key) < 0) \/ Len(s) = 0

\* normalize moving by one element however many advances are pending.
NormalizeIdx_single(sel, adv_, s) ==
  modulo(SelIndex(sel, s) + (IF adv_ > 0 THEN 1 ELSE IF adv_ < 0 THEN -1 ELSE 0),
         Len(s))

\* normalize with the wrap-around left out.
NormalizeIdx_unwrapped(sel, adv_, s) == SelIndex(sel, s) + adv_

\* The index normalize computes.
NormalizeIdx(sel, adv_, s) == modulo(SelIndex(sel, s) + adv_, Len(s))

\* The index the selection denotes now, pending advances included (-1: none).
Denoted == IF NormalizePanics(selection, seq) THEN -1
           ELSE NormalizeIdx(selection, advanced, seq)

NoneSeen == [i \in 0..MaxLen |-> 0]

SeenAt(i) == IF i \in DOMAIN NoneSeen THEN [NoneSeen EXCEPT ![i] = 1] ELSE NoneSeen

NoCall == [ret |-> -1, retKey |-> 0, selPos |-> -1, edited |-> FALSE,
           adv |-> FALSE]

Absent == [absent |-> TRUE]

\* A file cut short by a write that failed: no JSON document.
Corrupt == [corrupt |-> TRUE]

NoState == [none |-> TRUE]

NoEvent == [op |-> "none"]

NoTwin == [selection |-> Start(0), total |-> 0, panicked |-> FALSE]

\* The in/out area showing nothing.
InOutClear == [kind |-> "Clear"]

\* No State, no files: the task collection plays no part.
NoTasks ==
  /\ nextTaskId = 1
  /\ issued = {}
  /\ nextTagId = 1
  /\ state = NoState
  /\ progFile = Absent
  /\ taskFile = Absent
  /\ borrows = 0
  /\ row = 0
  /\ inOut = InOutClear
  /\ offset = 0
  /\ ev = NoEvent

\* The history that is only kept for an unchanged sequence, dropped.
Untracked ==
  /\ fixed' = FALSE
  /\ key0' = 0
  /\ s0' = -1
  /\ fwd' = 0
  /\ rev' = 0
  /\ stepwise' = FALSE
  /\ twin' = NoTwin
  /\ seen' = NoneSeen

\* SelectionState::new(key), for a caller holding the sequence s; fx: the
\* caller will not change the sequence.
InitSel(s, k, fx) ==
  /\ pc = "run"
  /\ seq = s
  /\ selection = Start(k)
  /\ reversed = FALSE
  /\ advanced = 0
  /\ total = 0
  /\ ret = -1
  /\ retKey = 0
  /\ selPos = -1
  /\ edited = FALSE
  /\ adv = FALSE
  /\ net = 0
  /\ last = NoCall
  /\ fixed = fx
  /\ key0 = IF fx THEN k ELSE 0
  /\ s0 = IF fx THEN Position(s, k) ELSE -1
  /\ fwd = 0
  /\ rev = 0
  /\ stepwise = fx
  /\ twin = IF fx THEN [selection |-> Start(k), total |-> 0, panicked |-> FALSE]
            ELSE NoTwin
  /\ seen = IF fx THEN SeenAt(Position(s, k)) ELSE NoneSeen

\* normalize leaving the pending advances in place.
normalize_advanced_kept == advanced

\* normalize leaving a mark of the advances it has used up.
normalize_advanced_marked == IF advanced = 0 THEN 0 ELSE 1

\* What normalize stores in advanced.
normalize_advanced == 0

\* advance with the sign of the reversed branch lost.
advance_forward_only == IF reversed THEN 1 ELSE 1

\* advance: the change, by direction.
advance_change == IF reversed THEN -1 ELSE 1

\* advance and then normalize(s) on the SelectionState tw: the change goes
\* into advanced and total, and normalize takes it out of advanced again.
TwinAdvance(tw, change, s) ==
  IF tw.panicked \/ NormalizePanics(tw.selection, s)
  THEN [tw EXCEPT !.panicked = TRUE]
  ELSE [selection |-> Normalized(NormalizeIdx(tw.selection, change, s)),
        total |-> tw.total + change,
        panicked |-> FALSE]

\* advance counting every advance into total, whatever its direction.
Advance_gross ==
  /\ pc = "run"
  /\ Abs(advanced + advance_change) <= (IF fixed THEN MaxAdv ELSE MaxPending)
  /\ Abs(total + 1) <= (IF fixed THEN MaxAdv ELSE MaxPending)
  /\ fixed => fwd + rev < MaxAdv
  /\ advanced' = advanced + advance_change
  /\ total' = total + 1
  /\ IF fixed
     THEN /\ fwd' = IF reversed THEN fwd ELSE fwd + 1
          /\ rev' = IF reversed THEN rev + 1 ELSE rev
          /\ stepwise' = (stepwise /\ advanced = 0)
          /\ twin' = TwinAdvance(twin, advance_change, seq)
          /\ UNCHANGED <<fixed, key0, s0, seen>>
     ELSE UNCHANGED epochVars
  /\ adv' = TRUE
  /\ net' = IF reversed THEN net - 1 ELSE net + 1
  /\ UNCHANGED <<pc, seq, selection, reversed, ret, retKey, selPos, edited, last,
                 taskVars>>

\* SelectionState::advance.
Advance ==
  /\ pc = "run"
  /\ Abs(advanced + advance_change) <= (IF fixed THEN MaxAdv ELSE MaxPending)
  /\ Abs(total + advance_change) <= (IF fixed THEN MaxAdv ELSE MaxPending)
  /\ fixed => fwd + rev < MaxAdv
  /\ advanced' = advanced + advance_change
  /\ total' = total + advance_change
  /\ IF fixed
     THEN /\ fwd' = IF reversed THEN fwd ELSE fwd + 1
          /\ rev' = IF reversed THEN rev + 1 ELSE rev
          /\ stepwise' = (stepwise /\ advanced = 0)
          /\ twin' = TwinAdvance(twin, advance_change, seq)
          /\ UNCHANGED <<fixed, key0, s0, seen>>
     ELSE UNCHANGED epochVars
  /\ adv' = TRUE
  /\ net' = IF reversed THEN net - 1 ELSE net + 1
  /\ UNCHANGED <<pc, seq, selection, reversed, ret, retKey, selPos, edited, last,
                 taskVars>>

\* reverse that starts a new cycle.
Reverse_resetting(flag) ==
  /\ pc = "run"
  /\ reversed' = flag
  /\ total' = 0
  /\ UNCHANGED <<pc, seq, selection, advanced, mutVars, epochVars, taskVars>>

\* reverse that turns the pending advances around with the direction.
Reverse_flipping(flag) ==
  /\ pc = "run"
  /\ reversed' = flag
  /\ advanced' = IF flag = reversed THEN advanced ELSE -advanced
  /\ UNCHANGED <<pc, seq, selection, total, mutVars, epochVars, taskVars>>

\* SelectionState::reverse.
Reverse(flag) ==
  /\ pc = "run"
  /\ reversed' = flag
  /\ UNCHANGED <<pc, seq, selection, advanced, total, mutVars, epochVars,
                 taskVars>>

\* reset_cycled that drops the pending advances too.
ResetCycled_full ==
  /\ pc = "run"
  /\ total' = 0
  /\ advanced' = 0
  /\ IF fixed
     THEN /\ key0' = 0
          /\ s0' = Denoted
          /\ fwd' = 0
          /\ rev' = 0
          /\ stepwise' = (advanced = 0)
          /\ twin' = [twin EXCEPT !.total = 0]
          /\ seen' = SeenAt(Denoted)
          /\ UNCHANGED fixed
     ELSE UNCHANGED epochVars
  /\ UNCHANGED <<pc, seq, selection, reversed, mutVars, taskVars>>

\* SelectionState::reset_cycled.
ResetCycled ==
  /\ pc = "run"
  /\ total' = 0
  /\ IF fixed
     THEN /\ key0' = 0
          /\ s0' = Denoted
          /\ fwd' = 0
          /\ rev' = 0
          /\ stepwise' = (advanced = 0)
          /\ twin' = [twin EXCEPT !.total = 0]
          /\ seen' = SeenAt(Denoted)
          /\ UNCHANGED fixed
     ELSE UNCHANGED epochVars
  /\ UNCHANGED <<pc, seq, selection, reversed, advanced, mutVars, taskVars>>

\* SelectionState::normalize(seq).
Normalize ==
  /\ pc = "run"
  /\ IF NormalizePanics(selection, seq)
     THEN /\ pc' = "panic"
          /\ UNCHANGED <<seq, selection, reversed, advanced, total, mutVars,
                         epochVars, taskVars>>
     ELSE LET idx == NormalizeIdx(selection, advanced, seq) IN
          /\ selection' = Normalized(idx)
          /\ advanced' = normalize_advanced
          /\ ret' = idx
          /\ retKey' = IF idx \in 0..(Len(seq) - 1) THEN seq[idx + 1] ELSE 0
          /\ selPos' = idx
          /\ edited' = FALSE
          /\ adv' = FALSE
          /\ net' = 0
          /\ last' = [ret |-> ret, retKey |-> retKey, selPos |-> selPos,
                      edited |-> edited, adv |-> adv]
          /\ seen' = IF fixed /\ advanced # 0 /\ idx \in DOMAIN seen
                     THEN [seen EXCEPT ![idx] = Min(@ + 1, 2)] ELSE seen
          /\ UNCHANGED <<pc, seq, reversed, total, fixed, key0, s0, fwd, rev,
                         stepwise, twin, taskVars>>

\* The caller's list gains the element k at 0-based position p.
InsertElem(p, k) ==
  /\ pc = "run"
  /\ Len(seq) < MaxLen
  /\ p \in 0..Len(seq)
  /\ seq' = InsertAt(seq, p, k)
  /\ selPos' = IF selPos >= 0 /\ p <= selPos THEN selPos + 1 ELSE selPos
  /\ edited' = TRUE
  /\ Untracked
  /\ UNCHANGED <<pc, selection, reversed, advanced, total, ret, retKey, adv, net,
                 last, taskVars>>

\* The caller's list loses the element at 0-based position p.
RemoveElem(p) ==
  /\ pc = "run"
  /\ p \in 0..(Len(seq) - 1)
  /\ seq' = RemoveAt(seq, p)
  /\ selPos' = IF p = selPos THEN -1
               ELSE IF p < selPos THEN selPos - 1 ELSE selPos
  /\ edited' = TRUE
  /\ Untracked
  /\ UNCHANGED <<pc, selection, reversed, advanced, total, ret, retKey, adv, net,
                 last, taskVars>>

InitFixed ==
  /\ \E s \in SeqsOf(Keys, 0, MaxLen) : \E k \in Keys : InitSel(s, k, TRUE)
  /\ NoTasks

NextFixed ==
  \/ Advance
  \/ \E flag \in BOOLEAN : Reverse(flag)
  \/ ResetCycled
  \/ Normalize

\* A SelectionState driven over a sequence that does not change.
SpecSel == InitFixed /\ [][NextFixed]_vars

InitMut ==
  /\ \E s \in SeqsOf(Keys, 0, MaxLen) : \E k \in Keys : InitSel(s, k, FALSE)
  /\ NoTasks

NextMut ==
  \/ Advance
  \/ \E flag \in BOOLEAN : Reverse(flag)
  \/ ResetCycled
  \/ Normalize
  \/ \E p \in 0..MaxLen : \E k \in Keys : InsertElem(p, k)
  \/ \E p \in 0..MaxLen : RemoveElem(p)

\* A SelectionState driven over a list that gains and loses elements between
\* the calls.
SpecSelMut == InitMut /\ [][NextMut]_vars

\* ------------------------------------------------- documents and files

\* The template ids of the documents.
SerTagIds == {5, 7}

Summaries == {"a", "b"}

\* The name of the template that marks a task complete.
COMPLETE_TAG == "complete"

\* The documents' id of the completion template, where a document has it.
CompleteSerId == CHOOSE i \in SerTagIds : \A j \in SerTagIds : j <= i

\* ser::tags::Template and ser::tags::Tag.
SerTemplate(i) ==
  [id |-> i, name |-> IF i = CompleteSerId THEN COMPLETE_TAG ELSE "other"]

SerTag(i) == [id |-> i]

\* The "templates" lists of the documents: no id twice.
TemplateDocs ==
  {ts \in SeqsOf({SerTemplate(i) : i \in SerTagIds}, 0, Cardinality(SerTagIds)) :
     \A i, j \in 1..Len(ts) : i # j => ts[i] # ts[j]}

\* ser::tasks::Task.
SerTasks == [summary : Summaries,
             tags : SeqsOf({SerTag(i) : i \in SerTagIds}, 0, MaxTaskTags)]

\* The task-state documents.
TaskDocs == [templates : TemplateDocs, tasks : SeqsOf(SerTasks, 0, MaxTasks)]

\* A persisted query; valid: Query::with_serde accepts it.
QueryDocs == [name : {"q"}, valid : BOOLEAN]

\* The program-state documents.
ProgDocs == [queries : SeqsOf(QueryDocs, 0, MaxQueries)]

\* Persisted queries of different names, and the program-state documents
\* with up to MaxNamedQueries of them.
NamedQueryDocs == [name : {"q", "r"}, valid : BOOLEAN]

NamedProgDocs == [queries : SeqsOf(NamedQueryDocs, 0, MaxNamedQueries)]

\* Task-state documents of at most one task, without tags.
PlainTaskDocs ==
  [templates : TemplateDocs,
   tasks : SeqsOf([summary : Summaries, tags : {<<>>}], 0, 1)]

\* Default::default() of the two documents.
DefaultProgDoc == [queries |-> <<>>]

DefaultTaskDoc == [templates |-> <<>>, tasks |-> <<>>]

\* serde on ser::tasks::Task: "tags" is left out when empty
\* (skip_serializing_if) and defaults to empty when absent (default).
TaskToJson(task) ==
  IF task.tags = <<>> THEN [summary |-> task.summary]
  ELSE [summary |-> task.summary, tags |-> task.tags]

TaskFromJson(j) ==
  [summary |-> j.summary,
   tags |-> IF "tags" \in DOMAIN j THEN j.tags ELSE <<>>]

TasksToJson(tasks) == [i \in 1..Len(tasks) |-> TaskToJson(tasks[i])]

TasksFromJson(js) == [i \in 1..Len(js) |-> TaskFromJson(js[i])]

TaskDocToJson(doc) == [templates |-> doc.templates, tasks |-> TasksToJson(doc.tasks)]

TaskDocFromJson(j) == [templates |-> j.templates, tasks |-> TasksFromJson(j.tasks)]

\* ------------------------------------------------------ tags and templates

\* Templates::with_serde: every template of the document gets a fresh tag
\* id, and the map takes the document's id to it; the completion template
\* is the one of that name, made anew when the document has none.
TemplatesWithSerde(ts, next) ==
  LET loaded == [i \in 1..Len(ts) |->
                   [id |-> next + i - 1, name |-> ts[i].name, ser |-> ts[i].id]]
      has == \E i \in 1..Len(ts) : ts[i].name = COMPLETE_TAG
      all == IF has THEN loaded
             ELSE Append(loaded, [id |-> next + Len(ts), name |-> COMPLETE_TAG,
                                  ser |-> CompleteSerId])
  IN [templates |-> all,
      map |-> [s \in {ts[i].id : i \in 1..Len(ts)} |->
                 next - 1 + CHOOSE i \in 1..Len(ts) : ts[i].id = s],
      complete |-> all[CHOOSE i \in 1..Len(all) : all[i].name = COMPLETE_TAG].id,
      next |-> next + Len(all)]

\* Templates::to_serde.
TemplatesToSerde(templates) ==
  [i \in 1..Len(templates) |-> [id |-> templates[i].ser, name |-> templates[i].name]]

\* Tag::to_serde: the document's id of the tag's template.
TagToSerde(templates, id) ==
  SerTag(templates[CHOOSE i \in 1..Len(templates) : templates[i].id = id].ser)

\* The tag ids of a registry.
TagIdsOf(templates) == {templates[i].id : i \in 1..Len(templates)}

\* ---------------------------------------------------------------- tasks.rs

\* The error of an unknown tag id: ErrorKind::InvalidInput, with the message
\* format!("Encountered invalid tag Id {}", id).
InvalidTag(id) ==
  [kind |-> "InvalidInput", msg |-> <<"Encountered invalid tag Id ", id>>]

\* The ascending sequence of a set of ids: the order BTreeMap iterates in.
RECURSIVE Ascending(_)
Ascending(S) ==
  IF S = {} THEN <<>>
  ELSE LET m == CHOOSE x \in S : \A y \in S : x <= y
       IN <<m>> \o Ascending(S \ {m})

\* BTreeMap<TagId, Tag>: the set of its entries <<key, tag>>, no key twice;
\* a tag is the id of its template.
BTreeInsert(m, k, v) == {e \in m : e[1] # k} \cup {<<k, v>>}

BTreeRemove(m, k) == {e \in m : e[1] # k}

BTreeKeys(m) == {e[1] : e \in m}

BTreeGet(m, k) == (CHOOSE e \in m : e[1] = k)[2]

\* Templates::instantiate: the tag of the template with the id.
Instantiate(id) == id

\* The tags of a task that holds one tag of each of the templates.
TagsOf(ids) == {<<i, Instantiate(i)>> : i \in ids}

\* The loop of Task::with_serde putting every tag of the record behind the
\* ones it has.
RECURSIVE ResolveTags_pushing(_, _, _)
ResolveTags_pushing(tags, map, acc) ==
  IF tags = <<>> THEN [ok |-> TRUE, tags |-> acc]
  ELSE IF Head(tags).id \notin DOMAIN map
       THEN [ok |-> FALSE, err |-> InvalidTag(Head(tags).id)]
       ELSE ResolveTags_pushing(Tail(tags), map,
              BTreeInsert(acc, Cardinality(acc) + 1, Instantiate(map[Head(tags).id])))

\* The loop of Task::with_serde over the record's tags, skipping an unknown
\* id instead of failing.
RECURSIVE ResolveTags_skipping(_, _, _)
ResolveTags_skipping(tags, map, acc) ==
  IF tags = <<>> THEN [ok |-> TRUE, tags |-> acc]
  ELSE IF Head(tags).id \notin DOMAIN map
       THEN ResolveTags_skipping(Tail(tags), map, acc)
       ELSE ResolveTags_skipping(Tail(tags), map,
              BTreeInsert(acc, map[Head(tags).id], Instantiate(map[Head(tags).id])))

\* The loop of Task::with_serde over the record's tags: the first id the map
\* does not hold ends it with the error; a resolved tag goes into the
\* BTreeMap under its id.
RECURSIVE ResolveTags(_, _, _)
ResolveTags(tags, map, acc) ==
  IF tags = <<>> THEN [ok |-> TRUE, tags |-> acc]
  ELSE IF Head(tags).id \notin DOMAIN map
       THEN [ok |-> FALSE, err |-> InvalidTag(Head(tags).id)]
       ELSE ResolveTags(Tail(tags), map,
              BTreeInsert(acc, map[Head(tags).id], Instantiate(map[Head(tags).id])))

\* Task::with_serde; id: what Id::new() hands out.
TaskWithSerde(task, map, id) ==
  LET r == ResolveTags(task.tags, map, {})
  IN IF r.ok
     THEN [ok |-> TRUE, task |-> [id |-> id, summary |-> task.summary, tags |-> r.tags]]
     ELSE r

\* Iterator::collect of the pairs (x.id(), x) into the BTreeMap.
RECURSIVE CollectTags(_, _)
CollectTags(tags, acc) ==
  IF tags = <<>> THEN acc
  ELSE CollectTags(Tail(tags), BTreeInsert(acc, Head(tags), Head(tags)))

\* with_summary_and_tags taking the id handed out before this one.
TaskWithSummaryAndTags_stale_id(summary, tags, id) ==
  [id |-> IF id > 1 THEN id - 1 ELSE id, summary |-> summary,
   tags |-> CollectTags(tags, {})]

\* Task::with_summary_and_tags: the tags collected into the BTreeMap.
TaskWithSummaryAndTags(summary, tags, id) ==
  [id |-> id, summary |-> summary, tags |-> CollectTags(tags, {})]

\* Task::is_complete: the task carries the completion tag of its registry.
TaskIsComplete(task, complete) == complete \in BTreeKeys(task.tags)

\* toggle_complete that drops every tag of a complete task.
TaskToggleComplete_clearing(task, complete) ==
  IF complete \in BTreeKeys(task.tags)
  THEN [task EXCEPT !.tags = {}]
  ELSE [task EXCEPT !.tags = BTreeInsert(@, complete, Instantiate(complete))]

\* toggle_complete that only ever inserts the completion tag.
TaskToggleComplete_insert_only(task, complete) ==
  [task EXCEPT !.tags = BTreeInsert(@, complete, Instantiate(complete))]

\* Task::toggle_complete: the completion tag is removed if the task has it
\* and inserted if not.
TaskToggleComplete(task, complete) ==
  IF complete \in BTreeKeys(task.tags)
  THEN [task EXCEPT !.tags = BTreeRemove(@, complete)]
  ELSE [task EXCEPT !.tags = BTreeInsert(@, complete, Instantiate(complete))]

\* Task::to_serde with the tags left out.
TaskToSerde_untagged(task, templates) == [summary |-> task.summary, tags |-> <<>>]

\* Task::to_serde.
TaskToSerde(task, templates) ==
  [summary |-> task.summary,
   tags |-> LET keys == Ascending(BTreeKeys(task.tags))
            IN [i \in 1..Len(keys) |->
                  TagToSerde(templates, BTreeGet(task.tags, keys[i]))]]

\* The loop of Tasks::with_serde: the first task that fails ends it with
\* that task's error; next: the allocator's next id.
RECURSIVE TasksWithSerdeFrom(_, _, _, _)
TasksWithSerdeFrom(tasks, map, next, acc) ==
  IF tasks = <<>> THEN [ok |-> TRUE, tasks |-> acc, next |-> next]
  ELSE LET r == TaskWithSerde(Head(tasks), map, next)
       IN IF r.ok
          THEN TasksWithSerdeFrom(Tail(tasks), map, next + 1, Append(acc, r.task))
          ELSE [ok |-> FALSE, err |-> r.err, next |-> next]

\* Tasks::with_serde.
TasksWithSerde(tasks, map, next) == TasksWithSerdeFrom(tasks, map, next, <<>>)

\* Tasks::to_serde.
TasksToSerde(tasks, templates) ==
  [i \in 1..Len(tasks) |-> TaskToSerde(tasks[i], templates)]

\* Tasks::add putting the task first.
TasksAdd_front(tasks, summary, tags, id) ==
  <<TaskWithSummaryAndTags(summary, tags, id)>> \o tasks

\* Tasks::add: the collection after it; the id returned is id.
TasksAdd(tasks, summary, tags, id) ==
  Append(tasks, TaskWithSummaryAndTags(summary, tags, id))

\* The 0-based position of the first task with the id, -1 for None.
TaskPosition(tasks, id) ==
  IF \E i \in 1..Len(tasks) : tasks[i].id = id
  THEN (CHOOSE i \in 1..Len(tasks) :
          tasks[i].id = id /\ \A j \in 1..(i - 1) : tasks[j].id # id) - 1
  ELSE -1

\* Tasks::remove taking the last task whatever the id.
TasksRemove_last(tasks, id) == SubSeq(tasks, 1, Len(tasks) - 1)

\* Tasks::remove taking the first task whatever the id.
TasksRemove_first(tasks, id) == Tail(tasks)

\* Tasks::remove, for an id in the collection.
TasksRemove(tasks, id) == RemoveAt(tasks, TaskPosition(tasks, id))

\* Tasks::update taking the summary only.
TasksUpdate_summary_only(tasks, task) ==
  [tasks EXCEPT ![TaskPosition(tasks, task.id) + 1].summary = task.summary]

\* Tasks::update, for a task whose id is in the collection.
TasksUpdate(tasks, task) ==
  [tasks EXCEPT ![TaskPosition(tasks, task.id) + 1] = task]

\* ---------------------------------------------------------------- state.rs

\* Query::with_serde.
QueryWithSerde(q) ==
  IF q.valid THEN [ok |-> TRUE, query |-> [name |-> q.name]]
  ELSE [ok |-> FALSE, err |-> [kind |-> "InvalidInput", msg |-> <<"query ", q.name>>]]

\* Query::to_serde.
QueryToSerde(query) == [name |-> query.name, valid |-> TRUE]

\* The loop of State::with_serde over the persisted queries; built: the
\* queries constructed so far.
RECURSIVE QueriesWithSerdeFrom(_, _)
QueriesWithSerdeFrom(qs, acc) ==
  IF qs = <<>> THEN [ok |-> TRUE, queries |-> acc, built |-> Len(acc)]
  ELSE LET r == QueryWithSerde(Head(qs))
       IN IF r.ok THEN QueriesWithSerdeFrom(Tail(qs), Append(acc, r.query))
          ELSE [ok |-> FALSE, err |-> r.err, built |-> Len(acc)]

\* State::with_serde without the implicit query.
StateWithSerde_no_all(prog, task, nextTask, nextTag) ==
  LET t == TemplatesWithSerde(task.templates, nextTag)
      r == TasksWithSerde(task.tasks, t.map, nextTask)
      q == QueriesWithSerdeFrom(prog.queries, <<>>)
  IN IF ~r.ok
     THEN [ok |-> FALSE, err |-> r.err, built |-> 0,
           nextTask |-> r.next, nextTag |-> t.next]
     ELSE IF ~q.ok
     THEN [ok |-> FALSE, err |-> q.err, built |-> q.built,
           nextTask |-> r.next, nextTag |-> t.next]
     ELSE [ok |-> TRUE, built |-> q.built, nextTask |-> r.next, nextTag |-> t.next,
           state |-> [templates |-> t.templates, map |-> t.map,
                      complete |-> t.complete,
                      queries |-> q.queries, tasks |-> r.tasks]]

\* State::with_serde building the queries before it looks at the tasks.
StateWithSerde_queries_first(prog, task, nextTask, nextTag) ==
  LET t == TemplatesWithSerde(task.templates, nextTag)
      q == QueriesWithSerdeFrom(prog.queries, <<[name |-> "all"]>>)
      r == TasksWithSerde(task.tasks, t.map, nextTask)
  IN IF ~q.ok
     THEN [ok |-> FALSE, err |-> q.err, built |-> q.built,
           nextTask |-> nextTask, nextTag |-> t.next]
     ELSE IF ~r.ok
     THEN [ok |-> FALSE, err |-> r.err, built |-> q.built,
           nextTask |-> r.next, nextTag |-> t.next]
     ELSE [ok |-> TRUE, built |-> q.built, nextTask |-> r.next, nextTag |-> t.next,
           state |-> [templates |-> t.templates, map |-> t.map,
                      complete |-> t.complete,
                      queries |-> q.queries, tasks |-> r.tasks]]

\* State::with_serde: the templates, then the tasks (an error ends the load),
\* then the "all" query and the persisted ones (an error ends the load).
\* built: the queries constructed by the time it returns.
StateWithSerde(prog, task, nextTask, nextTag) ==
  LET t == TemplatesWithSerde(task.templates, nextTag)
      r == TasksWithSerde(task.tasks, t.map, nextTask)
      q == QueriesWithSerdeFrom(prog.queries, <<[name |-> "all"]>>)
  IN IF ~r.ok
     THEN [ok |-> FALSE, err |-> r.err, built |-> 0,
           nextTask |-> r.next, nextTag |-> t.next]
     ELSE IF ~q.ok
     THEN [ok |-> FALSE, err |-> q.err, built |-> q.built,
           nextTask |-> r.next, nextTag |-> t.next]
     ELSE [ok |-> TRUE, built |-> q.built, nextTask |-> r.next, nextTag |-> t.next,
           state |-> [templates |-> t.templates, map |-> t.map,
                      complete |-> t.complete,
                      queries |-> q.queries, tasks |-> r.tasks]]

\* The error of a file that cannot be opened though it may exist.
OpenError == [kind |-> "PermissionDenied", msg |-> <<>>]

\* The error of a file that does not exist.
NotFound == [kind |-> "NotFound", msg |-> <<>>]

\* load_state with the file that does not exist an error like any other.
LoadState_strict(file, default, denied) ==
  IF denied THEN [ok |-> FALSE, err |-> OpenError]
  ELSE IF file = Absent THEN [ok |-> FALSE, err |-> NotFound]
  ELSE IF file = Corrupt THEN [ok |-> FALSE, err |-> [kind |-> "Json", msg |-> <<>>]]
  ELSE [ok |-> TRUE, doc |-> file]

\* State::load_state: a file that does not exist gives the default
\* document, any other error of open is returned (denied: open fails so),
\* and a file that does not parse is an error.
LoadState(file, default, denied) ==
  IF denied THEN [ok |-> FALSE, err |-> OpenError]
  ELSE IF file = Absent THEN [ok |-> TRUE, doc |-> default]
  ELSE IF file = Corrupt THEN [ok |-> FALSE, err |-> [kind |-> "Json", msg |-> <<>>]]
  ELSE [ok |-> TRUE, doc |-> file]

\* State::new: the two files are loaded (an error ends it), then with_serde.
\* denied: the file open fails on ("none", "prog" or "task").
StateNew(progF, taskF, denied, nextTask, nextTag) ==
  LET p == LoadState(progF, DefaultProgDoc, denied = "prog")
      t == LoadState(taskF, TaskDocToJson(DefaultTaskDoc), denied = "task")
  IN IF ~p.ok
     THEN [ok |-> FALSE, err |-> p.err, built |-> 0,
           nextTask |-> nextTask, nextTag |-> nextTag]
     ELSE IF ~t.ok
     THEN [ok |-> FALSE, err |-> t.err, built |-> 0,
           nextTask |-> nextTask, nextTag |-> nextTag]
     ELSE StateWithSerde(p.doc, TaskDocFromJson(t.doc), nextTask, nextTag)

\* The task document the task-state file holds, if it holds one.
FileTaskDoc ==
  IF taskFile \in {Absent, Corrupt} THEN DefaultTaskDoc ELSE TaskDocFromJson(taskFile)

\* State::to_serde persisting every query, the first one too.
StateToSerde_all_persisted(st) ==
  [prog |-> [queries |-> [i \in 1..Len(st.queries) |-> QueryToSerde(st.queries[i])]],
   task |-> [templates |-> TemplatesToSerde(st.templates),
             tasks |-> TasksToSerde(st.tasks, st.templates)]]

\* State::to_serde: the queries but the first, the templates and the tasks.
StateToSerde(st) ==
  [prog |-> [queries |-> [i \in 1..(Len(st.queries) - 1) |->
                            QueryToSerde(st.queries[i + 1])]],
   task |-> [templates |-> TemplatesToSerde(st.templates),
             tasks |-> TasksToSerde(st.tasks, st.templates)]]

\* The ids the allocator has to hand out to load the task document.
FitsAllocator(task) ==
  /\ nextTaskId + Len(task.tasks) - 1 <= MaxTaskIds
  /\ TemplatesWithSerde(task.templates, nextTagId).next - 1 <= MaxTagIds

\* What a load leaves: the State or none, the allocator moved on.
Loaded(r) ==
  /\ state' = IF r.ok THEN r.state ELSE NoState
  /\ nextTaskId' = r.nextTask
  /\ issued' = issued \cup (nextTaskId..(r.nextTask - 1))
  /\ nextTagId' = r.nextTag

\* State::with_serde on two documents, at program start.
WithSerde(prog, task) ==
  /\ pc = "run"
  /\ state = NoState
  /\ ev.op = "none"
  /\ FitsAllocator(task)
  /\ LET r == StateWithSerde(prog, task, nextTaskId, nextTagId)
     IN /\ Loaded(r)
        /\ ev' = [op |-> "with_serde", prog |-> prog, task |-> task, ok |-> r.ok,
                  err |-> IF r.ok THEN <<>> ELSE r.err, built |-> r.built]
  /\ UNCHANGED <<inOut, offset, row, borrows, pc, selAll, progFile, taskFile>>

\* State::new on the two files, at program start.
New(denied) ==
  /\ pc = "run"
  /\ ev.op \in {"none", "save"}
  /\ FitsAllocator(FileTaskDoc)
  /\ LET r == StateNew(progFile, taskFile, denied, nextTaskId, nextTagId)
     IN /\ Loaded(r)
        /\ ev' = [op |-> "new", ok |-> r.ok, err |-> IF r.ok THEN <<>> ELSE r.err,
                  built |-> r.built, denied |-> denied,
                  progWas |-> progFile, taskWas |-> taskFile,
                  ids |-> <<nextTaskId, nextTagId>>,
                  saved |-> IF ev.op = "save" /\ ev.ok
                            THEN <<StateToSerde(state)>> ELSE <<>>]
  /\ UNCHANGED <<inOut, offset, row, borrows, pc, selAll, progFile, taskFile>>

\* The error of a write that fails.
WriteError(file) == [kind |-> "Other", msg |-> <<"write ", file>>]

\* What the properties need of a save.
Saved(fails, cut) ==
  [op |-> "save", ok |-> (fails = "none"), fails |-> fails, cut |-> cut,
   err |-> IF fails = "none" THEN <<>> ELSE WriteError(fails),
   progWas |-> progFile, taskWas |-> taskFile, doc |-> StateToSerde(state)]

\* save going on to the task-state file after the write of the
\* program-state file failed.
Save_both_attempted(fails, cut) ==
  /\ pc = "run"
  /\ state # NoState
  /\ fails = "none" => ~cut
  /\ LET s == StateToSerde(state)
         failed(file) == IF cut THEN Corrupt ELSE file
     IN /\ progFile' = IF fails = "prog" THEN failed(progFile) ELSE s.prog
        /\ taskFile' = IF fails = "task" THEN failed(taskFile) ELSE TaskDocToJson(s.task)
  /\ ev' = Saved(fails, cut)
  /\ UNCHANGED <<inOut, offset, row, borrows, pc, selAll, nextTaskId, issued, nextTagId, state>>

\* State::save: the program-state file is written, then the task-state file;
\* fails: the write that fails ("none", "prog" or "task"); cut: it failed
\* after the file was truncated (write_all), not before (open).
SaveFiles(fails, cut) ==
  /\ pc = "run"
  /\ state # NoState
  /\ fails = "none" => ~cut
  /\ LET s == StateToSerde(state)
         failed(file) == IF cut THEN Corrupt ELSE file
     IN /\ progFile' = IF fails = "prog" THEN failed(progFile) ELSE s.prog
        /\ taskFile' = IF fails = "none" THEN TaskDocToJson(s.task)
                       ELSE IF fails = "task" THEN failed(taskFile)
                       ELSE taskFile
  /\ ev' = Saved(fails, cut)
  /\ UNCHANGED <<offset, row, borrows, pc, selAll, nextTaskId, issued, nextTagId,
                 state>>

\* State::save called by a caller that shows nothing of its outcome.
Save(fails, cut) == SaveFiles(fails, cut) /\ UNCHANGED inOut

\* Display of the error: its message.
ErrorMessage(err) == err.msg

\* TermUi::save with the failure shown as a success.
SaveInOut_always_saved(ok, err) == [kind |-> "Saved"]

\* TermUi::save: the in/out area is set to Saved, or to Error with the
\* message of the error.
SaveInOut(ok, err) ==
  IF ok THEN [kind |-> "Saved"]
  ELSE [kind |-> "Error", msg |-> ErrorMessage(err)]

\* The key 'w': TermUi::save calls the controller's save once and sends
\* its outcome to the in/out area.
KeyW(fails, cut) ==
  /\ SaveFiles(fails, cut)
  /\ inOut' = SaveInOut(fails = "none",
                        IF fails = "none" THEN <<>> ELSE WriteError(fails))

\* RefCell::borrow_mut panics (already borrowed) while a shared borrow lives.
BorrowMut_unchecked == FALSE

BorrowMutPanics == borrows > 0

\* The call aborted by the RefCell; nothing of the State has changed.
AlreadyBorrowed(by) ==
  /\ pc' = "panic"
  /\ ev' = [op |-> "already_borrowed", by |-> by, old |-> state.tasks,
            borrows |-> borrows]
  /\ UNCHANGED <<inOut, offset, row, selAll, nextTaskId, issued, nextTagId, state, progFile,
                 taskFile, borrows>>

\* An enumeration of the collection begins: RefCell::borrow hands out a
\* shared borrow that lives as long as the iteration.
BeginEnumerate ==
  /\ pc = "run"
  /\ state # NoState
  /\ borrows < MaxBorrows
  /\ borrows' = borrows + 1
  /\ ev' = [op |-> "borrow"]
  /\ UNCHANGED <<inOut, offset, row, pc, selAll, nextTaskId, issued, nextTagId, state, progFile,
                 taskFile>>

\* The enumeration is consumed or dropped: its shared borrow ends.
EndEnumerate ==
  /\ pc = "run"
  /\ borrows > 0
  /\ borrows' = borrows - 1
  /\ ev' = [op |-> "release"]
  /\ UNCHANGED <<inOut, offset, row, pc, selAll, nextTaskId, issued, nextTagId, state, progFile,
                 taskFile>>

\* State::add_task.
AddTask(summary, tags) ==
  /\ pc = "run"
  /\ state # NoState
  /\ IF BorrowMutPanics THEN AlreadyBorrowed("add")
     ELSE /\ Len(state.tasks) < MaxTasks
          /\ nextTaskId <= MaxTaskIds
          /\ state' = [state EXCEPT !.tasks = TasksAdd(@, summary, tags, nextTaskId)]
          /\ nextTaskId' = nextTaskId + 1
          /\ issued' = issued \cup {nextTaskId}
          /\ ev' = [op |-> "add", id |-> nextTaskId, summary |-> summary, tags |-> tags,
                    old |-> state.tasks, issued |-> issued,
                    before |-> TasksToSerde(state.tasks, state.templates)]
          /\ UNCHANGED <<inOut, offset, row, borrows, pc, selAll, nextTagId, progFile, taskFile>>

\* What the properties need of a call that aborted.
Aborted(by, id) ==
  [op |-> "panic", by |-> by, id |-> id, old |-> state.tasks,
   prev |-> IF ev.op \in {"remove", "update"} THEN <<ev.op, ev.id>> ELSE <<ev.op>>]

\* remove_task doing nothing for an id that is not in the collection.
RemoveTask_lenient(id) ==
  /\ pc = "run"
  /\ state # NoState
  /\ state' = IF TaskPosition(state.tasks, id) < 0 THEN state
              ELSE [state EXCEPT !.tasks = TasksRemove(@, id)]
  /\ ev' = [op |-> "remove", id |-> id, old |-> state.tasks,
            removed |-> <<>>, added |-> <<>>]
  /\ UNCHANGED <<inOut, offset, row, borrows, pc, selAll, nextTaskId, issued, nextTagId, progFile, taskFile>>

\* State::remove_task; an id that is not in the collection aborts (unwrap).
RemoveTask(id) ==
  /\ pc = "run"
  /\ state # NoState
  /\ IF BorrowMutPanics THEN AlreadyBorrowed("remove")
     ELSE /\ IF TaskPosition(state.tasks, id) < 0
             THEN /\ pc' = "panic"
                  /\ ev' = Aborted("remove", id)
                  /\ UNCHANGED state
             ELSE /\ state' = [state EXCEPT !.tasks = TasksRemove(@, id)]
                  /\ ev' = [op |-> "remove", id |-> id, old |-> state.tasks,
                            removed |-> <<state.tasks[TaskPosition(state.tasks, id) + 1]>>,
                            added |-> IF ev.op = "add" /\ ev.id = id
                                      THEN <<ev.before>> ELSE <<>>]
                  /\ UNCHANGED pc
          /\ UNCHANGED <<inOut, offset, row, borrows, selAll, nextTaskId, issued, nextTagId, progFile, taskFile>>

\* State::update_task; an id that is not in the collection aborts (unwrap).
UpdateTask(task) ==
  /\ pc = "run"
  /\ state # NoState
  /\ IF BorrowMutPanics THEN AlreadyBorrowed("update")
     ELSE /\ IF TaskPosition(state.tasks, task.id) < 0
             THEN /\ pc' = "panic"
                  /\ ev' = Aborted("update", task.id)
                  /\ UNCHANGED state
             ELSE /\ state' = [state EXCEPT !.tasks = TasksUpdate(@, task)]
                  /\ ev' = [op |-> "update", id |-> task.id, task |-> task,
                            old |-> state.tasks]
                  /\ UNCHANGED pc
          /\ UNCHANGED <<inOut, offset, row, borrows, selAll, nextTaskId, issued, nextTagId, progFile, taskFile>>

\* A task of the collection (a clone from State::tasks) toggled with
\* toggle_complete and put back with update_task.
ToggleTask(id) ==
  /\ pc = "run"
  /\ state # NoState
  /\ IF BorrowMutPanics THEN AlreadyBorrowed("update")
     ELSE /\ TaskPosition(state.tasks, id) >= 0
          /\ LET task == state.tasks[TaskPosition(state.tasks, id) + 1]
             IN /\ state' = [state EXCEPT
                               !.tasks = TasksUpdate(@, TaskToggleComplete(task, state.complete))]
                /\ ev' = [op |-> "toggle", id |-> id, before |-> task,
                          twice |-> IF ev.op = "toggle" /\ ev.id = id
                                    THEN <<ev.before>> ELSE <<>>]
          /\ UNCHANGED <<inOut, offset, row, borrows, pc, selAll, nextTaskId, issued, nextTagId, progFile, taskFile>>

\* Task equality that compares the content and never asserts.
TaskEq_by_content(a, b) ==
  [panicked |-> FALSE,
   result |-> a.id = b.id /\ a.summary = b.summary /\ a.tags = b.tags]

\* PartialEq for Task: the ids decide; tasks of one id with different
\* summaries or tags fail the assertions.
TaskEq(a, b) ==
  LET result == a.id = b.id
  IN IF ~(~result \/ a.summary = b.summary) THEN [panicked |-> TRUE, result |-> result]
     ELSE IF ~(~result \/ a.tags = b.tags) THEN [panicked |-> TRUE, result |-> result]
     ELSE [panicked |-> FALSE, result |-> result]

\* Two tasks compared with ==.
CompareTasks(a, b) ==
  /\ pc = "run"
  /\ state # NoState
  /\ LET r == TaskEq(a, b)
     IN /\ pc' = IF r.panicked THEN "panic" ELSE pc
        /\ ev' = [op |-> "eq", a |-> a, b |-> b, panicked |-> r.panicked,
                  result |-> r.result]
  /\ UNCHANGED <<inOut, offset, row, borrows, selAll, nextTaskId, issued, nextTagId, state, progFile, taskFile>>

\* The collection serialized (to_serde, to_json) and read back (from_json,
\* Tasks::with_serde) against the registry it was built with.
RoundTrip ==
  /\ pc = "run"
  /\ state # NoState
  /\ nextTaskId + Len(state.tasks) - 1 <= MaxTaskIds
  /\ LET ser == TasksFromJson(TasksToJson(TasksToSerde(state.tasks, state.templates)))
         r == TasksWithSerde(ser, state.map, nextTaskId)
     IN /\ state' = IF r.ok THEN [state EXCEPT !.tasks = r.tasks] ELSE state
        /\ nextTaskId' = r.next
        /\ issued' = issued \cup (nextTaskId..(r.next - 1))
        /\ ev' = [op |-> "round_trip", ok |-> r.ok, before |-> state.tasks]
  /\ UNCHANGED <<inOut, offset, row, borrows, pc, selAll, nextTagId, progFile, taskFile>>

\* The selection plays no part.
NoSelection ==
  /\ pc = "run"
  /\ seq = <<>>
  /\ selection = Start(1)
  /\ reversed = FALSE
  /\ advanced = 0
  /\ total = 0
  /\ ret = -1
  /\ retKey = 0
  /\ selPos = -1
  /\ edited = FALSE
  /\ adv = FALSE
  /\ net = 0
  /\ last = NoCall
  /\ fixed = FALSE
  /\ key0 = 0
  /\ s0 = -1
  /\ fwd = 0
  /\ rev = 0
  /\ stepwise = FALSE
  /\ twin = NoTwin
  /\ seen = NoneSeen

InitTasks == NoSelection /\ NoTasks

\* The tags a caller can hand to add or put on a task: instances of the
\* State's templates.
LiveTagIds == IF state = NoState THEN {} ELSE TagIdsOf(state.templates)

TagLists == SeqsOf(LiveTagIds, 0, MaxTaskTags)

NextTasks ==
  \/ /\ state = NoState
     /\ ev.op = "none"
     /\ \E prog \in ProgDocs : \E task \in TaskDocs : WithSerde(prog, task)
  \/ \E summary \in Summaries : \E tags \in TagLists : AddTask(summary, tags)
  \/ \E id \in 1..MaxTaskIds : RemoveTask(id)
  \/ \E id \in 1..MaxTaskIds : ToggleTask(id)
  \/ \E id \in 1..MaxTaskIds : \E summary \in Summaries :
       \E tags \in SUBSET LiveTagIds :
         UpdateTask([id |-> id, summary |-> summary, tags |-> TagsOf(tags)])

\* A State built from two documents, and its collection changed by add,
\* remove and update.
SpecTasks == InitTasks /\ [][NextTasks]_vars

NextPersist ==
  \/ /\ state = NoState
     /\ ev.op = "none"
     /\ \E prog \in ProgDocs : \E task \in TaskDocs : WithSerde(prog, task)
  \/ RoundTrip
  \/ \E fails \in {"none", "prog", "task"} : \E cut \in BOOLEAN : Save(fails, cut)
  \/ \E denied \in {"none", "prog", "task"} : New(denied)

\* A State built from two documents or from the two files, its collection
\* serialized and read back, and the State saved and loaded again.
SpecPersist == InitTasks /\ [][NextPersist]_vars

NextQueries ==
  \/ /\ state = NoState
     /\ ev.op = "none"
     /\ \E prog \in NamedProgDocs : \E task \in PlainTaskDocs : WithSerde(prog, task)
  \/ \E fails \in {"none", "prog", "task"} : \E cut \in BOOLEAN : Save(fails, cut)
  \/ \E denied \in {"none", "prog", "task"} : New(denied)

\* A State built from documents with several queries, saved and loaded
\* again, time after time.
SpecQueries == InitTasks /\ [][NextQueries]_vars

\* ---------------------------------------------------------------- termui.rs

\* The row the list shows as selected: the stored row, kept on the rows
\* the list has, with the last one taken for a row beyond it.
SanitizeSelection_raw(index, count) == index

\* The same, with the count of the rows taken for the last row.
SanitizeSelection_to_count(index, count) ==
  IF index < 0 THEN 0 ELSE IF index > count THEN count ELSE index

SanitizeSelection(index, count) ==
  IF count = 0 \/ index < 0 THEN 0
  ELSE IF index > count - 1 THEN count - 1
  ELSE index

\* 'j' and 'k': the selection moves a row down or up and stays on the list.
Select(key, change) ==
  /\ pc = "run"
  /\ state # NoState
  /\ row' = SanitizeSelection(SanitizeSelection(row, Len(state.tasks)) + change,
                              Len(state.tasks))
  /\ ev' = [op |-> "key", key |-> key, count |-> Len(state.tasks), row |-> row]
  /\ UNCHANGED <<inOut, offset, pc, selAll, nextTaskId, issued, nextTagId, state, progFile,
                 taskFile, borrows>>

\* 'd': TermUiEvent::RemoveTask with the id of the task of the selected row,
\* if there is one; TermUi::handle_custom_event hands it to remove_task.
KeyD ==
  /\ pc = "run"
  /\ state # NoState
  /\ LET index == SanitizeSelection(row, Len(state.tasks))
     IN IF index + 1 \in 1..Len(state.tasks)
        THEN RemoveTask(state.tasks[index + 1].id)
        ELSE /\ ev' = [op |-> "key", key |-> "d", count |-> Len(state.tasks),
                       row |-> row]
             /\ UNCHANGED <<inOut, offset, pc, selAll, nextTaskId, issued, nextTagId, state,
                            progFile, taskFile, borrows, row>>

\* Most tasks of the list the UI starts with.
MaxRows == 3

\* The UI set up on a list of tasks without tags, as the tests do with
\* make_tasks.
InitUi ==
  /\ NoSelection
  /\ \E tasks \in SeqsOf([summary : Summaries, tags : {<<>>}], 0, MaxRows) :
       LET r == StateWithSerde(DefaultProgDoc,
                               [templates |-> <<>>, tasks |-> tasks], 1, 1)
       IN /\ state = r.state
          /\ nextTaskId = r.nextTask
          /\ issued = 1..(r.nextTask - 1)
          /\ nextTagId = r.nextTag
  /\ progFile = Absent
  /\ taskFile = Absent
  /\ borrows = 0
  /\ row = 0
  /\ inOut = InOutClear
  /\ offset = 0
  /\ ev = NoEvent

NextUi ==
  \/ Select("j", 1)
  \/ Select("k", -1)
  \/ KeyD

\* The UI on a list of tasks, with any sequence of the keys j, k and d.
SpecUi == InitUi /\ [][NextUi]_vars

NextSaveUi ==
  \/ /\ state = NoState
     /\ ev.op = "none"
     /\ \E prog \in ProgDocs : \E task \in TaskDocs : WithSerde(prog, task)
  \/ \E fails \in {"none", "prog", "task"} : \E cut \in BOOLEAN : KeyW(fails, cut)

\* The UI on a State built from two documents, with the key w pressed time
\* after time and the writes failing or not.
SpecSaveUi == InitTasks /\ [][NextSaveUi]_vars

\* ------------------------------------------------------------ ser/tasks.rs

\* ser::tags::Templates::is_valid: the document has a template of that id.
TemplatesIsValid(ts, id) == \E i \in 1..Len(ts) : ts[i].id = id

\* The inner loop reporting the last unknown id of the task, not the first.
ValidateTaskTags_last(tags, ts) ==
  IF \A i \in 1..Len(tags) : TemplatesIsValid(ts, tags[i].id)
  THEN [ok |-> TRUE]
  ELSE [ok |-> FALSE,
        err |-> InvalidTag(tags[CHOOSE i \in 1..Len(tags) :
                                  /\ ~TemplatesIsValid(ts, tags[i].id)
                                  /\ \A j \in (i + 1)..Len(tags) :
                                       TemplatesIsValid(ts, tags[j].id)].id)]

\* The inner loop of validate_tags, over the tags of one task: the first id
\* that is not valid ends it with the error.
RECURSIVE ValidateTaskTags(_, _)
ValidateTaskTags(tags, ts) ==
  IF tags = <<>> THEN [ok |-> TRUE]
  ELSE IF ~TemplatesIsValid(ts, Head(tags).id)
       THEN [ok |-> FALSE, err |-> InvalidTag(Head(tags).id)]
       ELSE ValidateTaskTags(Tail(tags), ts)

\* The outer loop of validate_tags, over the tasks.
RECURSIVE ValidateTagsFrom(_, _)
ValidateTagsFrom(tasks, ts) ==
  IF tasks = <<>> THEN [ok |-> TRUE]
  ELSE LET r == ValidateTaskTags(Head(tasks).tags, ts)
       IN IF r.ok THEN ValidateTagsFrom(Tail(tasks), ts) ELSE r

\* ser::tasks::Tasks::validate_tags.
ValidateTags(doc) == ValidateTagsFrom(doc.tasks, doc.templates)

\* validate_tags called on a task document, and the document's tasks loaded
\* with Tasks::with_serde against the registry and the map that
\* Templates::with_serde builds from the document's templates.
ValidateTagsCall(doc) ==
  /\ pc = "run"
  /\ FitsAllocator(doc)
  /\ LET t == TemplatesWithSerde(doc.templates, nextTagId)
         r == TasksWithSerde(doc.tasks, t.map, nextTaskId)
     IN ev' = [op |-> "validate_tags", task |-> doc, valid |-> ValidateTags(doc),
               loaded |-> IF r.ok THEN [ok |-> TRUE]
                          ELSE [ok |-> FALSE, err |-> r.err]]
  /\ UNCHANGED <<inOut, offset, pc, selAll, nextTaskId, issued, nextTagId,
                 state, progFile, taskFile, borrows, row>>

NextValidate == ev = NoEvent /\ \E doc \in TaskDocs : ValidateTagsCall(doc)

\* One call of validate_tags and of Tasks::with_serde, on any task document.
SpecValidate == InitTasks /\ [][NextValidate]_vars

\* -------------------------------------------------------- term_renderer.rs

\* The bits of the integers the renderer counts rows with (usize, scaled
\* down).
UsizeBits == 3

UsizeMax == 2 ^ UsizeBits - 1

\* n as the build without overflow checks keeps it in a usize.
WrapUsize(n) == (n + 2 ^ UsizeBits) % (2 ^ UsizeBits)

\* fn sanitize_offset on usize (o the offset, index the selection): the
\* selection when it is at or before the offset, selection - (limit - 1) when
\* it is after offset + (limit - 1), the offset otherwise; limit - 1, the addition and the subtraction abort when
\* they leave the type in a build with overflow checks and wrap in one
\* without.
sanitize_offset(o, index, limit, checked) ==
  IF index <= o THEN [panicked |-> FALSE, r |-> index]
  ELSE IF checked /\ limit - 1 < 0
  THEN [panicked |-> TRUE, r |-> 0]
  ELSE IF checked /\ o + WrapUsize(limit - 1) > UsizeMax
  THEN [panicked |-> TRUE, r |-> 0]
  ELSE IF index > WrapUsize(o + WrapUsize(limit - 1))
  THEN IF checked /\ index - WrapUsize(limit - 1) < 0
       THEN [panicked |-> TRUE, r |-> 0]
       ELSE [panicked |-> FALSE,
             r |-> WrapUsize(index - WrapUsize(limit - 1))]
  ELSE [panicked |-> FALSE, r |-> o]

\* sanitize_offset called, and called again on what it returned.
SanitizeOffsetCall(o, index, limit, checked) ==
  /\ pc = "run"
  /\ LET m == sanitize_offset(o, index, limit, checked)
     IN /\ pc' = IF m.panicked THEN "panic" ELSE pc
        /\ ev' = [op |-> "sanitize_offset", offset |-> o, selection |-> index,
                  limit |-> limit, checked |-> checked,
                  panicked |-> m.panicked, r |-> m.r,
                  again |-> IF m.panicked THEN m
                            ELSE sanitize_offset(m.r, index, limit, checked)]
  /\ UNCHANGED <<inOut, offset, selAll, nextTaskId, issued, nextTagId, state,
                 progFile, taskFile, borrows, row>>

NextOffset ==
  /\ ev = NoEvent
  /\ \E o \in 0..UsizeMax : \E index \in 0..UsizeMax : \E limit \in 0..UsizeMax :
       \E checked \in BOOLEAN : SanitizeOffsetCall(o, index, limit, checked)

\* One call of sanitize_offset, with any offset, selection and limit of the
\* type, in either build.
SpecOffset == InitTasks /\ [][NextOffset]_vars

\* The visitor of render_task_list_box, with the task at offset + limit
\* still drawn.
VisitTask_inclusive(i, o, limit) ==
  IF i > o + limit THEN "stop" ELSE IF i < o THEN "skip" ELSE "draw"

\* The visitor render_task_list_box hands to Query::enumerate, on the task
\* of relative index i: the enumeration stops at offset + limit, a task
\* before the offset is passed over, any other is drawn.
VisitTask(i, o, limit) ==
  IF i >= o + limit THEN "stop" ELSE IF i < o THEN "skip" ELSE "draw"

\* Query::enumerate with that visitor, from the task of relative index i on:
\* the tasks in the order of the collection, until the visitor stops the
\* enumeration or the wfail-th write of a task fails (0: no write fails).
RECURSIVE Enumerate(_, _, _, _, _, _)
Enumerate(tasks, i, o, limit, wfail, acc) ==
  IF i >= Len(tasks) THEN acc
  ELSE LET v == VisitTask(i, o, limit)
           seen1 == [acc EXCEPT !.visited = Append(@, i)]
       IN IF v = "stop" THEN seen1
          ELSE IF v = "skip"
          THEN Enumerate(tasks, i + 1, o, limit, wfail, seen1)
          ELSE IF Len(acc.drawn) + 1 = wfail THEN [seen1 EXCEPT !.err = TRUE]
          ELSE Enumerate(tasks, i + 1, o, limit, wfail,
                         [seen1 EXCEPT !.drawn = Append(@, tasks[i + 1].id)])

\* Most tasks the list has room for.
MaxLimit == 2

\* render_task_list_box on a box with room for limit tasks: the offset is
\* sanitized against the selection, the tasks are enumerated and the list
\* keeps the offset; a failed write ends the program.
RenderTaskListBox(limit, checked, wfail) ==
  /\ pc = "run"
  /\ state # NoState
  /\ LET index == SanitizeSelection(row, Len(state.tasks))
         m == sanitize_offset(offset, index, limit, checked)
         e == Enumerate(state.tasks, 0, m.r, limit, wfail,
                        [drawn |-> <<>>, visited |-> <<>>, err |-> FALSE])
     IN IF m.panicked
        THEN /\ pc' = "panic"
             /\ ev' = [op |-> "render_panic", limit |-> limit]
             /\ UNCHANGED offset
        ELSE IF e.err
        THEN /\ pc' = "panic"
             /\ ev' = [op |-> "render_failed", limit |-> limit]
             /\ UNCHANGED offset
        ELSE /\ offset' = m.r
             /\ ev' = [op |-> "render", stored |-> offset, selection |-> index,
                       limit |-> limit, o |-> m.r, drawn |-> e.drawn,
                       visited |-> e.visited]
             /\ UNCHANGED pc
  /\ UNCHANGED <<inOut, selAll, nextTaskId, issued, nextTagId, state, progFile,
                 taskFile, borrows, row>>

NextRender ==
  \/ Select("j", 1)
  \/ Select("k", -1)
  \/ KeyD
  \/ \E limit \in 0..MaxLimit : \E checked \in BOOLEAN : \E wfail \in 0..MaxLimit :
       RenderTaskListBox(limit, checked, wfail)

\* The UI on a list of tasks, drawn in boxes of any height between the
\* keys j, k and d.
SpecRender == InitUi /\ [][NextRender]_vars

\* ------------------------------------------------ selection.rs: fn modulo

\* The bits of the integers modulo is called with (isize, scaled down).
IntBits == 4

IntMin == -(2 ^ (IntBits - 1))

IntMax == 2 ^ (IntBits - 1) - 1

\* a + b does not fit the integer type.
AddOverflows(a, b) == a + b > IntMax \/ a + b < IntMin

\* a + b as the build without overflow checks computes it.
WrappingAdd(a, b) == ((a + b - IntMin + 2 ^ IntBits) % (2 ^ IntBits)) + IntMin

\* fn modulo on the integer type: ((x % y) + y) % y, the addition aborting
\* on overflow in a build with overflow checks and wrapping in one without.
modulo_isize(x, y, checked) ==
  IF AddOverflows(Rem(x, y), y) /\ checked
  THEN [panicked |-> TRUE, r |-> 0]
  ELSE [panicked |-> FALSE, r |-> Rem(WrappingAdd(Rem(x, y), y), y)]

\* modulo called with x and a positive y.
ModuloCall(x, y, checked) ==
  /\ pc = "run"
  /\ y > 0
  /\ LET m == modulo_isize(x, y, checked)
     IN /\ pc' = IF m.panicked THEN "panic" ELSE pc
        /\ ev' = [op |-> "modulo", x |-> x, y |-> y, checked |-> checked,
                  panicked |-> m.panicked, r |-> m.r]
  /\ UNCHANGED <<inOut, offset, selAll, nextTaskId, issued, nextTagId, state, progFile,
                 taskFile, borrows, row>>

NextModulo ==
  /\ ev = NoEvent
  /\ \E x \in IntMin..IntMax : \E y \in 1..IntMax : \E checked \in BOOLEAN :
       ModuloCall(x, y, checked)

\* One call of modulo, with any integer of the type and any positive one, in
\* either build.
SpecModulo == InitTasks /\ [][NextModulo]_vars

\* ------------------------------------------------------ tasks.rs: equality

\* The clones a caller can compare a task with: the task itself or the task
\* with another summary or other tags.
NextEq ==
  \/ /\ state = NoState
     /\ ev.op = "none"
     /\ \E prog \in ProgDocs : \E task \in TaskDocs : WithSerde(prog, task)
  \/ \E summary \in Summaries : \E tags \in TagLists : AddTask(summary, tags)
  \/ /\ state # NoState
     /\ \E i, j \in 1..Len(state.tasks) : \E summary \in Summaries :
          \E tags \in SUBSET LiveTagIds :
            CompareTasks(state.tasks[i],
                         [id |-> state.tasks[j].id, summary |-> summary,
                          tags |-> TagsOf(tags)])

\* A State built from two documents, tasks added, and tasks compared.
SpecEq == InitTasks /\ [][NextEq]_vars

NextBorrow ==
  \/ /\ state = NoState
     /\ ev.op = "none"
     /\ \E prog \in ProgDocs : \E task \in PlainTaskDocs : WithSerde(prog, task)
  \/ BeginEnumerate
  \/ EndEnumerate
  \/ \E summary \in Summaries : \E tags \in TagLists : AddTask(summary, tags)
  \/ \E id \in 1..MaxTaskIds : RemoveTask(id)
  \/ \E id \in 1..MaxTaskIds : \E summary \in Summaries :
       \E tags \in SUBSET LiveTagIds :
         UpdateTask([id |-> id, summary |-> summary, tags |-> TagsOf(tags)])

\* A State whose collection is enumerated and changed, the enumerations
\* beginning and ending at any time.
SpecBorrow == InitTasks /\ [][NextBorrow]_vars

\* ------------------------------------------------- selection.rs: properties

\* The smallest 0-based index of k in s, stated without Position.
FirstIndexOf(s, k) ==
  CHOOSE i \in 0..(Len(s) - 1) : s[i + 1] = k /\ \A j \in 0..(i - 1) : s[j + 1] # k

\* C1: after new(key) for a key at index s of a sequence of length N > 0 and
\* k forward advances (no reverse advance, no reset_cycled), a normalize
\* returns (s + k) mod N, an index in 0..N-1.
C1_ForwardNormalize ==
  (pc = "run" /\ key0 # 0 /\ rev = 0 /\ selection.kind = "Normalized" /\ ~adv)
    => /\ Len(seq) > 0
       /\ ret = (FirstIndexOf(seq, key0) + fwd) % Len(seq)
       /\ ret \in 0..(Len(seq) - 1)

\* C1's case: four advances at once from the last of three elements, one
\* normalize, which wraps around to index 0.
C1_Witness ==
  /\ pc = "run" /\ key0 # 0 /\ rev = 0 /\ ~adv
  /\ Len(seq) = 3 /\ s0 = 2 /\ fwd = 4
  /\ last.ret = -1 /\ last.adv
  /\ ret = 0

\* C2: has_cycled(N) is true exactly when the net number of advances since
\* new() or the last reset_cycled() exceeds N in absolute value: false up to
\* N advances in one direction, true from the (N+1)-th on.
C2_HasCycled ==
  \A n \in 0..(MaxLen + 1) : has_cycled(n) <=> (Abs(fwd - rev) > n)

\* C2's case: after a reset_cycled(), has_cycled(3) has become true again
\* with the fourth advance.
C2_Witness ==
  /\ pc = "run" /\ key0 = 0 /\ Len(seq) = 3
  /\ fwd = 4 /\ rev = 0
  /\ has_cycled(Len(seq)) /\ ~has_cycled(Len(seq) + 1)

\* C3: on a fixed sequence of length N > 0, with advances in one direction
\* only and a normalize after each, whenever has_cycled(N) is true (so at the
\* first such moment) the selection has denoted every index 0..N-1 and its
\* start index twice.
C3_CoverageBeforeCycle ==
  (pc = "run" /\ stepwise /\ (fwd = 0 \/ rev = 0) /\ Len(seq) > 0
     /\ has_cycled(Len(seq)))
    => /\ \A i \in 0..(Len(seq) - 1) : seen[i] >= 1
       /\ s0 \in 0..(Len(seq) - 1)
       /\ seen[s0] >= 2

\* C3's case: the first moment has_cycled(3) holds in a reverse traversal
\* from the middle element, the fourth advance made and not yet normalized.
C3_Witness ==
  /\ pc = "run" /\ stepwise /\ fwd = 0 /\ rev = 4 /\ Len(seq) = 3 /\ s0 = 1
  /\ adv /\ has_cycled(Len(seq))
  /\ seen[s0] = 2

\* C4: on a fixed sequence, once as many reverse as forward advances were
\* made from index s, normalize returns s again (with or without normalize
\* calls in between) and total has its value from before the advances.
C4_ThereAndBack ==
  (pc = "run" /\ fwd = rev /\ s0 >= 0 /\ Len(seq) > 0)
    => /\ Denoted = s0
       /\ total = 0
       /\ (selection.kind = "Normalized" /\ ~adv) => ret = s0

\* C4's case: two forward advances, reverse(true), two more advances and a
\* normalize, back at the start.
C4_Witness ==
  /\ pc = "run" /\ fwd = 2 /\ rev = 2 /\ reversed /\ Len(seq) = 3
  /\ selection.kind = "Normalized" /\ ~adv /\ last.adv
  /\ ret = s0 /\ total = 0

C6_IndexInRange ==
  (pc = "run" /\ selection.kind = "Normalized" /\ ~edited /\ ~adv)
    => /\ Len(seq) > 0
       /\ ret \in 0..(Len(seq) - 1)
       /\ selection.idx = ret

\* C6's case: a normalize whose stored index was past the end of the
\* shrunken list, with reverse advances pending.
C6_Witness ==
  /\ pc = "run" /\ selection.kind = "Normalized" /\ ~edited /\ ~adv
  /\ last.ret >= Len(seq) /\ last.edited /\ last.adv /\ reversed
  /\ ret \in 0..(Len(seq) - 1)

\* ------------------------------------------ tasks.rs, state.rs: properties

\* The template ids of a task document.
RegistryOf(doc) == {doc.templates[i].id : i \in 1..Len(doc.templates)}

\* The places <<task, tag>> of a task document whose tag id is not in its
\* registry.
BadPlaces(doc) ==
  {p \in (1..Len(doc.tasks)) \X (1..MaxTaskTags) :
     /\ p[2] <= Len(doc.tasks[p[1]].tags)
     /\ doc.tasks[p[1]].tags[p[2]].id \notin RegistryOf(doc)}

\* The first unknown tag id of a document, in task order, then tag order.
FirstBadId(doc) ==
  LET p == CHOOSE x \in BadPlaces(doc) :
             \A y \in BadPlaces(doc) :
               x[1] < y[1] \/ (x[1] = y[1] /\ x[2] <= y[2])
  IN doc.tasks[p[1]].tags[p[2]].id

\* C7: loading a task document in which a task carries a tag id that is not
\* in the template registry fails with the InvalidInput error whose message
\* is "Encountered invalid tag Id <id>" for the first such id, and gives no
\* State.
C7_InvalidTagError ==
  (ev.op = "with_serde" /\ BadPlaces(ev.task) # {})
    => /\ ~ev.ok
       /\ state = NoState
       /\ ev.err = [kind |-> "InvalidInput",
                    msg |-> <<"Encountered invalid tag Id ", FirstBadId(ev.task)>>]

\* C7's case: the second task of the document lists a known tag and then an
\* unknown one.
C7_Witness ==
  /\ ev.op = "with_serde" /\ ~ev.ok /\ state = NoState
  /\ RegistryOf(ev.task) = {7}
  /\ Len(ev.task.tasks) = 2
  /\ ev.task.tasks[1].tags = <<SerTag(7)>>
  /\ ev.task.tasks[2].tags = <<SerTag(7), SerTag(5)>>
  /\ ev.err.msg[2] = 5

\* C8: State::with_serde returns Ok only for a document all of whose tag
\* ids are in the registry; for any other document, wherever the offending
\* task stands, it fails before a query is constructed and leaves no State.
C8_AllOrNothing ==
  (ev.op = "with_serde")
    => /\ ev.ok => (BadPlaces(ev.task) = {} /\ state # NoState)
       /\ ~ev.ok => state = NoState
       /\ BadPlaces(ev.task) # {} => (~ev.ok /\ ev.built = 0 /\ state = NoState)

\* C8's case: the load of a document with a persisted query whose first task
\* is sound and whose second is not.
C8_Witness ==
  /\ ev.op = "with_serde" /\ ~ev.ok /\ ev.built = 0 /\ state = NoState
  /\ Len(ev.prog.queries) = 1 /\ ev.prog.queries[1].valid
  /\ Len(ev.task.tasks) = 2
  /\ \A p \in BadPlaces(ev.task) : p[1] = 2
  /\ nextTaskId = 2

\* The tag set of a task by the template ids of the documents.
SerTagSet(task, templates) == {TagToSerde(templates, e[2]).id : e \in task.tags}

C10_AddThenRemove ==
  (ev.op = "remove" /\ ev.added # <<>>)
    => TasksToSerde(state.tasks, state.templates) = ev.added[1]

\* C10's case: a tagged task added to a collection of one and removed again.
C10_Witness ==
  /\ ev.op = "remove" /\ ev.added # <<>>
  /\ Len(state.tasks) = 1
  /\ ev.removed[1].tags # {}
  /\ ev.removed[1].id > state.tasks[1].id

\* The task with the id in the collection of the State.
TaskOf(id) == state.tasks[TaskPosition(state.tasks, id) + 1]

\* C11: toggle_complete applied twice to a task, with or without the
\* completion tag and whatever its other tags, leaves its tag set and
\* is_complete() as they were; applied once it flips is_complete().
C11_ToggleTwice ==
  (ev.op = "toggle")
    => /\ TaskIsComplete(TaskOf(ev.id), state.complete)
            = ~TaskIsComplete(ev.before, state.complete)
       /\ ev.twice # <<>>
            => /\ TaskOf(ev.id).tags = ev.twice[1].tags
               /\ TaskIsComplete(TaskOf(ev.id), state.complete)
                    = TaskIsComplete(ev.twice[1], state.complete)
               /\ TaskOf(ev.id) = ev.twice[1]

\* C11's case: a task with another tag and without the completion tag,
\* toggled twice.
C11_Witness ==
  /\ ev.op = "toggle" /\ ev.twice # <<>>
  /\ ~TaskIsComplete(ev.twice[1], state.complete)
  /\ TaskIsComplete(ev.before, state.complete)
  /\ Cardinality(ev.before.tags) = 2
  /\ Len(state.tasks) = 2

\* C12: add grows the collection by one task, placed last, with the summary
\* and the tags given; the tasks that were there keep content and order; the
\* id returned is that of the last task and of no other task.
C12_AddAppends ==
  (ev.op = "add")
    => /\ Len(state.tasks) = Len(ev.old) + 1
       /\ \A i \in 1..Len(ev.old) : state.tasks[i] = ev.old[i] /\ ev.old[i].id # ev.id
       /\ state.tasks[Len(state.tasks)].summary = ev.summary
       /\ state.tasks[Len(state.tasks)].tags
            = {<<ev.tags[i], ev.tags[i]>> : i \in 1..Len(ev.tags)}
       /\ state.tasks[Len(state.tasks)].id = ev.id

\* C12's case: a task with two tags added to a collection of one that
\* has another summary.
C12_Witness ==
  /\ ev.op = "add" /\ Len(ev.old) = 1 /\ Len(state.tasks) = 2
  /\ ev.old[1].summary # ev.summary
  /\ Cardinality(state.tasks[2].tags) = 2
  /\ ev.id > 2

\* The 1-based places of the tasks with the id in a collection.
PlacesOf(tasks, id) == {i \in 1..Len(tasks) : tasks[i].id = id}

\* C13: remove of an id that is in the collection deletes the task with that
\* id and nothing else: the tasks before it stay where they were, the tasks
\* behind it move up by one, none changes.
C13_RemoveExactlyOne ==
  (ev.op = "remove")
    => /\ Cardinality(PlacesOf(ev.old, ev.id)) = 1
       /\ PlacesOf(state.tasks, ev.id) = {}
       /\ Len(state.tasks) = Len(ev.old) - 1
       /\ \A p \in PlacesOf(ev.old, ev.id) :
            \A i \in 1..Len(state.tasks) :
              state.tasks[i] = IF i < p THEN ev.old[i] ELSE ev.old[i + 1]

\* C13's case: the first of two tasks removed.
C13_Witness ==
  /\ ev.op = "remove" /\ Len(ev.old) = 2 /\ ev.old[1].id = ev.id
  /\ state.tasks = <<ev.old[2]>>
  /\ ev.old[2].tags # {}

\* C14: update of a task whose id is in the collection puts the argument in
\* the place of the stored task with that id; the length, the sequence of
\* ids and every other task are as before.
C14_UpdateReplaces ==
  (ev.op = "update")
    => /\ Len(state.tasks) = Len(ev.old)
       /\ Cardinality(PlacesOf(ev.old, ev.id)) = 1
       /\ \A i \in 1..Len(ev.old) :
            /\ state.tasks[i].id = ev.old[i].id
            /\ state.tasks[i] = IF ev.old[i].id = ev.id THEN ev.task ELSE ev.old[i]

\* C14's case: the second of two tasks given another summary and other tags.
C14_Witness ==
  /\ ev.op = "update" /\ Len(ev.old) = 2 /\ ev.old[2].id = ev.id
  /\ ev.task.summary # ev.old[2].summary
  /\ ev.task.tags # ev.old[2].tags /\ ev.task.tags # {}
  /\ state.tasks[2] = ev.task

\* C15: remove and update never succeed on an id no task of the collection
\* has: the call aborts and the collection is what it was.
C15_UnknownIdAborts ==
  /\ (ev.op \in {"remove", "update"}) => PlacesOf(ev.old, ev.id) # {}
  /\ (ev.op = "panic")
       => /\ pc = "panic"
          /\ PlacesOf(ev.old, ev.id) = {}
          /\ state.tasks = ev.old
  /\ (pc = "panic" /\ state # NoState) => ev.op = "panic"

\* C15's case: the second remove of an id, with another task in the
\* collection.
C15_Witness ==
  /\ ev.op = "panic" /\ ev.by = "remove" /\ ev.prev = <<"remove", ev.id>>
  /\ Len(state.tasks) = 1 /\ pc = "panic"

\* C16: load_state takes a file that does not exist for the default
\* document and returns Ok; any other failure to open the file is returned
\* as it is; State::new fails when either of its two load_state calls fails.
C16_LoadState ==
  (ev.op = "new")
    => /\ ev.denied = "prog" => (~ev.ok /\ ev.err = OpenError)
       /\ (ev.denied = "task" /\ ev.progWas # Corrupt) => (~ev.ok /\ ev.err = OpenError)
       /\ (ev.denied # "none" \/ Corrupt \in {ev.progWas, ev.taskWas}) => ~ev.ok
       /\ ~ev.ok => state = NoState
       /\ (ev.denied = "none" /\ ev.progWas = Absent /\ ev.taskWas # Corrupt)
            => (ev.ok => Len(state.queries) = 1)
       /\ (ev.denied = "none" /\ ev.taskWas = Absent /\ ev.progWas # Corrupt)
            => /\ ev.ok
               /\ state.tasks = <<>>
               /\ Len(state.queries)
                    = 1 + (IF ev.progWas = Absent THEN 0 ELSE Len(ev.progWas.queries))

\* C16's case: a program-state file with a query and no task-state file.
C16_Witness ==
  /\ ev.op = "new" /\ ev.denied = "none" /\ ev.ok
  /\ ev.taskWas = Absent /\ ev.progWas \notin {Absent, Corrupt}
  /\ Len(ev.progWas.queries) = 1
  /\ Len(state.queries) = 2 /\ state.tasks = <<>>

\* C17: State::new with neither file there succeeds with a State of no
\* tasks and the one implicit query "all", the State with_serde gives on two
\* default documents.
C17_NewWithoutFiles ==
  (ev.op = "new" /\ ev.denied = "none" /\ ev.progWas = Absent /\ ev.taskWas = Absent)
    => /\ ev.ok
       /\ state # NoState
       /\ state.tasks = <<>>
       /\ state.queries = <<[name |-> "all"]>>
       /\ state = StateWithSerde(DefaultProgDoc, DefaultTaskDoc,
                                 ev.ids[1], ev.ids[2]).state

\* C17's case: the program started with no file, after a save that wrote
\* none.
C17_Witness ==
  /\ ev.op = "new" /\ ev.denied = "none" /\ ev.ok
  /\ ev.progWas = Absent /\ ev.taskWas = Absent
  /\ ev.ids[1] > 1
  /\ state.tasks = <<>> /\ Len(state.queries) = 1

\* C19: save writes the program-state file, then the task-state file, the
\* second only after the first went through: a failure of the first leaves
\* the task-state file untouched, a failure of the second leaves the
\* program-state file with the new content and the task-state file without
\* it, and save returns the error of the write that failed.
C19_SaveOrder ==
  (ev.op = "save")
    => /\ ev.fails = "prog"
            => /\ ~ev.ok /\ ev.err = WriteError("prog")
               /\ taskFile = ev.taskWas
               /\ progFile \in {ev.progWas, Corrupt}
       /\ ev.fails = "task"
            => /\ ~ev.ok /\ ev.err = WriteError("task")
               /\ progFile = ev.doc.prog
               /\ taskFile \in {ev.taskWas, Corrupt}
       /\ ev.fails = "none"
            => /\ ev.ok
               /\ progFile = ev.doc.prog
               /\ TaskDocFromJson(taskFile) = ev.doc.task

\* C19's case: the first save of a State with a query and a task, whose
\* second write fails: the program-state file is there, the task-state file
\* is not.
C19_Witness ==
  /\ ev.op = "save" /\ ev.fails = "task" /\ ~ev.cut /\ ~ev.ok
  /\ ev.progWas = Absent /\ ev.taskWas = Absent
  /\ Len(ev.doc.prog.queries) = 1 /\ ev.doc.task.tasks # <<>>
  /\ progFile = ev.doc.prog
  /\ taskFile = Absent

\* The names of a sequence of queries, in order.
NamesOf(qs) == [i \in 1..Len(qs) |-> qs[i].name]

\* C18: in every State the first query is the implicit "all" and the
\* persisted queries follow in document order; save writes the queries but
\* the first; a State loaded from what was saved has as many queries as the
\* one saved, and "all" once.
C18_ImplicitAllQuery ==
  /\ state # NoState
       => /\ Len(state.queries) >= 1
          /\ state.queries[1].name = "all"
          /\ \A i \in 2..Len(state.queries) : state.queries[i].name # "all"
  /\ (ev.op = "with_serde" /\ ev.ok)
       => NamesOf(state.queries) = <<"all">> \o NamesOf(ev.prog.queries)
  /\ (ev.op = "save" /\ ev.fails # "prog")
       => /\ Len(progFile.queries) = Len(state.queries) - 1
          /\ <<"all">> \o NamesOf(progFile.queries) = NamesOf(state.queries)
  /\ (ev.op = "new" /\ ev.ok /\ ev.saved # <<>>)
       => /\ Len(state.queries) = Len(ev.saved[1].prog.queries) + 1
          /\ NamesOf(state.queries) = <<"all">> \o NamesOf(ev.saved[1].prog.queries)

\* C18's case: a State with the queries "r" and "q" loaded a third time
\* from what it saved.
C18_Witness ==
  /\ ev.op = "new" /\ ev.ok /\ ev.saved # <<>>
  /\ ev.ids[2] = 4
  /\ NamesOf(state.queries) = <<"all", "r", "q">>
  /\ NamesOf(progFile.queries) = <<"r", "q">>

\* C20: in every state of a collection, after the load and any add, remove,
\* update and toggle, no two tasks have the same id, and the id add returns
\* is none handed out before, that of a task since removed included.
C20_IdsDistinct ==
  /\ state # NoState
       => /\ \A i, j \in 1..Len(state.tasks) :
               i # j => state.tasks[i].id # state.tasks[j].id
          /\ \A i \in 1..Len(state.tasks) : state.tasks[i].id \in issued
  /\ (ev.op = "add")
       => /\ ev.id \notin ev.issued
          /\ PlacesOf(state.tasks, ev.id) = {Len(state.tasks)}

\* C20's case: a task added to a collection of one after two tasks were
\* removed.
C20_Witness ==
  /\ ev.op = "add" /\ Len(ev.old) = 1 /\ Len(state.tasks) = 2
  /\ Cardinality({i \in ev.issued : PlacesOf(ev.old, i) = {}}) = 2
  /\ ev.id = 4

\* C21: a task never holds two tags of the same template, whether it was
\* loaded from a record that lists a tag id more than once, added with a tag
\* list that repeats a tag, or toggled any number of times.
C21_OneTagPerTemplate ==
  state # NoState
    => \A i \in 1..Len(state.tasks) :
         \A e1, e2 \in state.tasks[i].tags :
           (e1[2] = e2[2] \/ e1[1] = e2[1]) => e1 = e2

\* C21's case: a task added with a tag list that names the completion tag
\* twice, next to a task loaded from a record that lists a tag id twice.
C21_Witness ==
  /\ ev.op = "add" /\ Len(ev.tags) = 2 /\ ev.tags[1] = ev.tags[2]
  /\ ev.tags[1] = state.complete
  /\ Len(state.tasks) = 2
  /\ state.tasks[2].tags = {<<state.complete, state.complete>>}
  /\ Cardinality(state.tasks[1].tags) = 1
  /\ state.tasks[1].id = 1 /\ ev.id = 2

\* C22: == on tasks returns true when the ids are equal and the content is
\* too, false when the ids differ, and neither when the ids are equal and the
\* summaries or the tag sets differ: that comparison fails an assertion.
C22_TaskEquality ==
  ev.op = "eq"
    => /\ ev.a.id # ev.b.id => ~ev.panicked /\ ev.result = FALSE /\ pc = "run"
       /\ (ev.a.id = ev.b.id /\ ev.a.summary = ev.b.summary /\ ev.a.tags = ev.b.tags)
            => ~ev.panicked /\ ev.result = TRUE /\ pc = "run"
       /\ (ev.a.id = ev.b.id /\ (ev.a.summary # ev.b.summary \/ ev.a.tags # ev.b.tags))
            => ev.panicked /\ pc = "panic"

\* C22's case: a task of the collection compared with its clone whose
\* summary was edited.
C22_Witness ==
  /\ ev.op = "eq" /\ ev.panicked /\ pc = "panic"
  /\ \E i \in 1..Len(state.tasks) : state.tasks[i] = ev.a
  /\ ev.b.id = ev.a.id /\ ev.b.tags = ev.a.tags /\ ev.b.summary # ev.a.summary

\* C23: add_task, remove_task and update_task issued while an enumeration of
\* the collection is live are stopped at run time: the mutable borrow of the
\* RefCell fails, the call aborts and the collection is what it was; a call
\* that went through was issued with no enumeration live.
C23_BorrowChecked ==
  /\ ev.op \in {"add", "remove", "update"} => borrows = 0
  /\ ev.op = "already_borrowed"
       => /\ pc = "panic" /\ ev.borrows > 0 /\ borrows = ev.borrows
          /\ state.tasks = ev.old
  /\ (pc = "panic" /\ borrows > 0) => ev.op = "already_borrowed"

\* C23's case: remove_task of a task of the collection issued while an
\* enumeration is live.
C23_Witness ==
  /\ ev.op = "already_borrowed" /\ ev.by = "remove" /\ borrows = 1
  /\ Len(state.tasks) = 2 /\ pc = "panic"

\* C23 as stated: no run-time check stops a change of the collection that is
\* issued while an enumeration is live.
C23_NotCheckedAtRunTime == ev.op # "already_borrowed"

C26_TotalFrame ==
  [][/\ Advance => (total' - total) \in {-1, 1}
     /\ ResetCycled => total' = 0
     /\ (Normalize \/ \E flag \in BOOLEAN : Reverse(flag)) => total' = total
     /\ total' # total => (Advance \/ ResetCycled)
     /\ Normalize => \A n \in 0..MaxLen : has_cycled(n) => has_cycled(n)']_vars

\* C26's case: two normalize in a row, with no advance between them, on a
\* selection that has cycled.
C26_Witness ==
  /\ has_cycled(Len(seq)) /\ Len(seq) > 0
  /\ ret # -1 /\ ~adv /\ last.ret # -1 /\ ~last.adv /\ pc = "run"

\* C27: advance changes advanced and total by the same amount, 1 up when not
\* reversed and 1 down when reversed, and leaves the anchor and the direction
\* alone; has_advanced is true exactly when the forward and the reverse
\* advances since the last normalize do not cancel out.
C27_AdvanceStep ==
  /\ [](has_advanced <=> net # 0)
  /\ [][Advance => /\ advanced' - advanced = total' - total
                   /\ advanced' - advanced = (IF reversed THEN -1 ELSE 1)
                   /\ selection' = selection
                   /\ reversed' = reversed]_vars

\* C27's case: advances in both directions since the last normalize, more of
\* them reverse than forward.
C27_Witness ==
  /\ adv /\ net < 0 /\ has_advanced /\ total > net /\ ret # -1

\* C28: normalize makes the index it returns the anchor and sets advanced to
\* 0, so has_advanced is false right after it, and a second normalize on any
\* sequence of the same length, with no advance between, returns the same
\* index.
C28_NormalizeStores ==
  /\ [][(Normalize /\ pc' = "run")
         => /\ selection' = Normalized(ret')
            /\ advanced' = 0
            /\ ~has_advanced'
            /\ \A s \in SeqsOf(Keys, Len(seq), Len(seq)) :
                 /\ ~NormalizePanics(selection', s)
                 /\ NormalizeIdx(selection', advanced', s) = ret']_vars
  /\ []((ret # -1 /\ last.ret # -1 /\ ~last.adv /\ ~last.edited) => ret = last.ret)

\* C28's case: a normalize that used up advances, and a second one right
\* after it that returned the same index.
C28_Witness ==
  /\ ret > 0 /\ last.ret = ret /\ ~last.adv /\ ~adv /\ selection = Normalized(ret)
  /\ advanced = 0 /\ total # 0 /\ pc = "run"

\* C29: reverse sets the direction and nothing else: the anchor, advanced and
\* total are what they were, has_advanced and has_cycled answer as before,
\* and a normalize would return what it would have returned before.
C29_ReverseOnlyDirection ==
  [][\A flag \in BOOLEAN :
       Reverse(flag)
         => /\ reversed' = flag
            /\ selection' = selection /\ advanced' = advanced /\ total' = total
            /\ has_advanced' = has_advanced
            /\ \A n \in 0..MaxLen : has_cycled(n)' = has_cycled(n)
            /\ NormalizePanics(selection', seq') = NormalizePanics(selection, seq)
            /\ Denoted' = Denoted]_vars

\* C29's case: the direction reversed with forward advances pending.
C29_Witness ==
  /\ reversed /\ advanced > 0 /\ net = advanced /\ total > 0
  /\ selection.kind = "Normalized"

\* C30: reset_cycled sets total to 0 and nothing else: the anchor, the
\* direction and advanced are what they were, and a normalize would return
\* what it would have returned without the call.
C30_ResetCycledOnlyTotal ==
  [][ResetCycled
       => /\ total' = 0
          /\ selection' = selection /\ reversed' = reversed /\ advanced' = advanced
          /\ has_advanced' = has_advanced
          /\ NormalizePanics(selection', seq') = NormalizePanics(selection, seq)
          /\ Denoted' = Denoted]_vars

\* C30's case: reset_cycled called with advances pending, none made since.
C30_Witness ==
  /\ fixed /\ fwd = 0 /\ rev = 0 /\ advanced # 0 /\ total = 0
  /\ selection.kind = "Normalized"

C31_ModuloWithoutOverflow ==
  (ev.op = "modulo" /\ ev.y > 0 /\ ~AddOverflows(Rem(ev.x, ev.y), ev.y))
    => /\ ~ev.panicked
       /\ 0 <= ev.r /\ ev.r < ev.y
       /\ Rem(ev.x - ev.r, ev.y) = 0
       /\ ev.r = modulo(ev.x, ev.y)

\* C32: the first normalize after new(key) starts from the position of the
\* first element equal to key; every later normalize starts from the index
\* the normalize before it stored and returned, whatever the elements of the
\* sequence are: only its length counts.
C32_AnchorResolution ==
  /\ [][(Normalize /\ pc' = "run")
         => IF ret = -1
            THEN /\ selection.kind = "Start"
                 /\ ret' = (FirstIndexOf(seq, selection.key) + advanced + MaxPending * Len(seq))
                            % Len(seq)
            ELSE /\ selection = Normalized(ret)
                 /\ ret' = (ret + advanced + MaxPending * Len(seq)) % Len(seq)
                 /\ \A s \in SeqsOf(Keys, Len(seq), Len(seq)) :
                      /\ ~NormalizePanics(selection, s)
                      /\ NormalizeIdx(selection, advanced, s) = ret']_vars
  /\ [](selection.kind = "Start" <=> ret = -1)

\* C32's case: a later normalize on a list that was edited since the one
\* before it: with no advance between them the index is the same, the
\* element at it is another.
C32_Witness ==
  /\ ret # -1 /\ last.ret = ret /\ last.edited /\ ~last.adv
  /\ retKey # last.retKey /\ Len(seq) = MaxLen /\ pc = "run" /\ ~adv /\ ~edited

\* C33: one toggle_complete turns is_complete() around and changes nothing
\* of the task but whether it holds the completion tag: its id, its summary
\* and its other tags are what they were.
C33_ToggleFrame ==
  (ev.op = "toggle")
    => LET after == TaskOf(ev.id)
           others(task) == {e \in task.tags : e[1] # state.complete}
       IN /\ TaskIsComplete(after, state.complete)
               = ~TaskIsComplete(ev.before, state.complete)
          /\ (state.complete \in BTreeKeys(after.tags))
               = (state.complete \notin BTreeKeys(ev.before.tags))
          /\ after.id = ev.before.id
          /\ after.summary = ev.before.summary
          /\ others(after) = others(ev.before)

\* C33's case: a complete task with another tag toggled once, after some
\* other call.
C33_Witness ==
  /\ ev.op = "toggle" /\ ev.twice = <<>>
  /\ TaskIsComplete(ev.before, state.complete)
  /\ Cardinality(ev.before.tags) = 2
  /\ Cardinality(TaskOf(ev.id).tags) = 1
  /\ ~TaskIsComplete(TaskOf(ev.id), state.complete)

\* C34: a save asked for with the key w is attempted once and its outcome is
\* shown: the in/out area is set to Saved when both files were written and to
\* Error with the message of the error when a write failed; after a failure
\* the files are what the one failed attempt left, and the tasks in memory
\* are what they were.
C34_SaveSurfaced ==
  /\ [][\A fails \in {"none", "prog", "task"} : \A cut \in BOOLEAN :
         KeyW(fails, cut)
           => /\ state' = state
              /\ pc' = pc
              /\ fails = "none"
                   => /\ inOut' = [kind |-> "Saved"]
                      /\ progFile' = StateToSerde(state).prog
                      /\ taskFile' = TaskDocToJson(StateToSerde(state).task)
              /\ fails # "none"
                   => /\ inOut' = [kind |-> "Error", msg |-> WriteError(fails).msg]
                      /\ taskFile' \in {taskFile, Corrupt}
                      /\ fails = "prog"
                           => progFile' \in {progFile, Corrupt} /\ taskFile' = taskFile]_vars
  /\ [](ev.op = "save" => (inOut.kind = "Saved" <=> ev.ok) /\ inOut.kind # "Clear")

\* C34's case: w pressed after a save that worked, the write of the
\* task-state file failing this time.
C34_Witness ==
  /\ ev.op = "save" /\ ev.fails = "task" /\ ~ev.ok
  /\ inOut = [kind |-> "Error", msg |-> WriteError("task").msg]
  /\ ev.taskWas = TaskDocToJson(ev.doc.task)
  /\ ev.doc.task.tasks # <<>>
  /\ taskFile \in {ev.taskWas, Corrupt}
  /\ progFile = ev.doc.prog

\* C35: a task list drawn with sanitized offset o and limit L shows exactly
\* the tasks of relative index o .. o + L - 1 that the list has, in the order
\* of the collection and at most L of them; the tasks before o are visited
\* and passed over, and the enumeration ends with the visit of index o + L.
C35_ViewportWindow ==
  ev.op = "render"
    => LET count == Len(state.tasks)
           n == IF count - ev.o < 0 THEN 0
                ELSE IF count - ev.o < ev.limit THEN count - ev.o
                ELSE ev.limit
           visits == IF count < ev.o + ev.limit + 1 THEN count
                     ELSE ev.o + ev.limit + 1
       IN /\ ev.drawn = [k \in 1..n |-> state.tasks[ev.o + k].id]
          /\ Len(ev.drawn) <= ev.limit
          /\ ev.visited = [k \in 1..visits |-> k - 1]

\* C35 witness: a list drawn from its second task on, with tasks passed
\* over, a full box drawn and the enumeration stopped before the end.
C35_Witness ==
  /\ ev.op = "render"
  /\ ev.o > 0
  /\ ev.limit > 0
  /\ Len(ev.drawn) = ev.limit
  /\ ev.o + ev.limit < Len(state.tasks)
  /\ Len(ev.visited) = ev.o + ev.limit + 1

SlidingWindowWithoutOverflow ==
  (ev.op = "sanitize_offset" /\ ev.limit >= 1
     /\ ev.offset + (ev.limit - 1) <= UsizeMax)
    => /\ ~ev.panicked
       /\ ev.r <= ev.selection
       /\ ev.selection <= ev.r + ev.limit - 1
       /\ (ev.offset <= ev.selection /\ ev.selection <= ev.offset + ev.limit - 1
             => ev.r = ev.offset)
       /\ ev.again = [panicked |-> FALSE, r |-> ev.r]

\* C37: normalize on an empty sequence, and a first normalize whose Start
\* key is not in the sequence, aborts and leaves the SelectionState as it
\* was; a normalize that returns, returns an index of the sequence.
C37_NormalizeAborts ==
  /\ [][(Normalize /\ (Len(seq) = 0
                         \/ (selection.kind = "Start"
                               /\ \A i \in 1..Len(seq) : seq[i] # selection.key)))
          => /\ pc' = "panic"
             /\ UNCHANGED <<selection, reversed, advanced, total, ret>>]_vars
  /\ [][(Normalize /\ pc' = "run")
          => /\ ret' \in 0..(Len(seq) - 1)
             /\ selection' = Normalized(ret')]_vars

\* C37 witness: a first normalize with advances pending has aborted on a
\* sequence that has elements but not the Start key.
C37_Witness ==
  /\ pc = "panic"
  /\ selection.kind = "Start"
  /\ Len(seq) > 0
  /\ advanced # 0

\* C38: on a fixed sequence of length N > 0 a normalize returns, after any
\* advance and reverse calls, the index that a SelectionState created alike
\* returns when it gets the same calls with a normalize after every advance,
\* and both have the same total.
C38_BatchingIsStepping ==
  /\ []((fixed /\ pc = "run" /\ ~twin.panicked) => total = twin.total)
  /\ [][(Normalize /\ fixed /\ twin.panicked) => pc' = "panic"]_vars
  /\ [][(Normalize /\ fixed /\ Len(seq) > 0 /\ pc' = "run")
          => /\ ret' = NormalizeIdx(twin.selection, 0, seq)
             /\ total' = twin.total]_vars

\* C38 witness: three advances forward and one back were made without a
\* normalize between them, and the first normalize has wrapped around to
\* where the twin is.
C38_Witness ==
  /\ pc = "run" /\ fixed /\ ~stepwise /\ ~adv
  /\ fwd = 3 /\ rev = 1 /\ Len(seq) = 3 /\ s0 = 1
  /\ last.ret = -1 /\ last.adv
  /\ ret = 0
  /\ twin.selection = Normalized(0)
  /\ total = 2

\* C39: total is the number of forward advances less the number of reverse
\* advances since creation or the last reset_cycled; an advance against the
\* sign of total lowers abs(total) by one, any other raises it by one, and
\* has_cycled(n) turns from true to false only with reset_cycled or with
\* such an advance.
C39_NetMovement ==
  /\ [](fixed => total = fwd - rev)
  /\ [][(Advance /\ fixed)
          => Abs(total') = (IF (total > 0 /\ reversed) \/ (total < 0 /\ ~reversed)
                            THEN Abs(total) - 1 ELSE Abs(total) + 1)]_vars
  /\ [][\A n \in 0..(MaxLen + 1) :
          (has_cycled(n) /\ ~has_cycled(n)')
            => \/ ResetCycled
               \/ Advance /\ ((total > 0 /\ reversed) \/ (total < 0 /\ ~reversed))]_vars

\* C39 witness: no reset_cycled was ever called; at the last normalize total
\* was 2 and has_cycled(1) true, two reverse advances later total is 0 and
\* has_cycled(1) is false, after four advances in all.
C39_Witness ==
  /\ pc = "run" /\ fixed /\ key0 # 0
  /\ Len(seq) = 1
  /\ total - net = 2
  /\ net = -2
  /\ fwd = 2 /\ rev = 2
  /\ ~has_cycled(Len(seq))

\* C40: for every task document validate_tags returns Ok exactly when
\* Tasks::with_serde succeeds against the registry built from the document's
\* templates, and when they fail both return the InvalidInput error with the
\* message "Encountered invalid tag Id <id>" for the first unknown tag id in
\* task order, then tag order.
C40_ValidateAgreesWithLoad ==
  ev.op = "validate_tags"
    => /\ ev.valid.ok <=> ev.loaded.ok
       /\ ev.valid.ok <=> BadPlaces(ev.task) = {}
       /\ ~ev.valid.ok
            => /\ ev.valid.err = ev.loaded.err
               /\ ev.valid.err =
                    [kind |-> "InvalidInput",
                     msg |-> <<"Encountered invalid tag Id ", FirstBadId(ev.task)>>]

\* C40 witness: both fail on a document whose first task is fine and whose
\* second task has a known tag id and then an unknown one, which both report.
C40_Witness ==
  /\ ev.op = "validate_tags" /\ ~ev.valid.ok /\ ~ev.loaded.ok
  /\ RegistryOf(ev.task) = {7}
  /\ Len(ev.task.tasks) = 2
  /\ ev.task.tasks[1].tags = <<SerTag(7)>>
  /\ ev.task.tasks[2].tags = <<SerTag(7), SerTag(5)>>
  /\ ev.valid.err.msg[2] = 5

====
